---- MODULE Spec2Model ----
(***************************************************************************)
(* A model of the tree widget: the tree of shared items, the flattener     *)
(* (src/src/flatten.rs), the navigation state TreeState and the scroll     *)
(* window of Tree::render (src/src/lib.rs), and the line composers         *)
(* (src/src/reflow.rs).                                                    *)
(*                                                                         *)
(* Conventions.  A Rust Vec is a TLA+ sequence; Rust indexes from 0, TLA+  *)
(* from 1, so v[i] of the code is v[i + 1] here.  A TreeIdentifierVec is a *)
(* sequence of naturals (child indices, 0-based as in the code).  An       *)
(* Rc<RefCell<TreeItem>> is a handle: a key of the heap `nodes`.  An       *)
(* Option<usize> is a natural, or None.                                    *)
(***************************************************************************)
EXTENDS Integers, Sequences, FiniteSets, TLC

VARIABLES
    nodes,      \* the heap of tree items: handle -> [text, children]
    items,      \* Tree::items, the root handles
    offset,     \* TreeState::offset
    opened,     \* TreeState::opened
    selected,   \* TreeState::selected
    panicked,   \* an operation hit an arithmetic underflow or an index out of range
    last,       \* the last operation: its name, argument, return value and pre-state
    flat,       \* the Vec<Flattened> the last explicit flatten call returned
    input,      \* the logical lines a line composer was constructed with
    composer,   \* the line composer (WordWrapper)
    result,     \* what the last next_line call returned
    emitted,    \* the lines next_line has returned so far, in order
    pulls       \* the number of next_line calls so far

treeVars == <<nodes, items, offset, opened, selected, panicked, last, flat>>

composerVars == <<input, composer, result, emitted, pulls>>

vars == <<nodes, items, offset, opened, selected, panicked, last, flat,
          input, composer, result, emitted, pulls>>

-----------------------------------------------------------------------------
(* Bounds of the model.                                                    *)

\* The generated trees have at most MaxNodes items.
MaxNodes == 3
\* The trees flatten is called with on its own have at most MaxFlattenNodes
\* items (and the example tree of the tests, of eight).
MaxFlattenNodes == 5
\* The open sets a flatten call is given hold at most MaxOpened identifiers.
MaxOpened == 3
\* Tree::render is given areas of height 0..MaxAreaHeight and width 0..MaxAreaWidth.
MaxAreaHeight == 2
MaxAreaWidth == 1
\* A composer is given one logical line of at most MaxLineLen symbols, or
\* two logical lines of at most MaxShortLen symbols each.
MaxLineLen == 4
MaxShortLen == 2
\* max_line_width is in 0..MaxWidth.
MaxWidth == 3
\* next_line is called at most MaxPulls times on a composer.
MaxPulls == 5
\* The horizontal offset of a LineTruncator is in 0..MaxOffset.
MaxOffset == 2
\* The text of an item the scroll window is computed over has
\* 0..MaxItemHeight lines.
MaxItemHeight == 2
\* The same key is handled at most MaxRun times in a row.
MaxRun == 7
\* A tree whose items are changed between flatten calls has at most
\* MaxSharedNodes items.
MaxSharedNodes == 3

-----------------------------------------------------------------------------
(* Values.                                                                 *)

\* Option::None of an Option<usize>.
None == -1

min(a, b) == IF a <= b THEN a ELSE b

\* usize::saturating_sub
saturating_sub(a, b) == IF a >= b THEN a - b ELSE 0

\* usize::saturating_add, below usize::MAX
saturating_add(a, b) == a + b

\* The elements of a finite set of integers, in increasing order.
RECURSIVE SortedSeq(_)
SortedSeq(S) ==
    IF S = {} THEN <<>>
    ELSE LET m == CHOOSE x \in S : \A y \in S : x <= y
         IN <<m>> \o SortedSeq(S \ {m})

-----------------------------------------------------------------------------
(* Trees.  A forest of n items is written as the sequence of the depths of *)
(* its items in pre-order (roots have depth 1); the item at position i     *)
(* gets the handle i.                                                      *)

DepthSeqs(n) ==
    {d \in [1..n -> 1..n] :
        /\ n >= 1 => d[1] = 1
        /\ \A i \in 1..(n - 1) : d[i + 1] <= d[i] + 1}

\* The handles of the children of item i, in child-list order.
ChildHandles(d, i) ==
    SortedSeq({j \in (i + 1)..Len(d) :
                  /\ d[j] = d[i] + 1
                  /\ \A k \in (i + 1)..(j - 1) : d[k] > d[i]})

RootHandles(d) == SortedSeq({j \in 1..Len(d) : d[j] = 1})

ItemLabels == <<"a", "b", "c", "d", "e", "f", "g", "h", "i", "j">>

\* TreeItem::new / TreeItem::new_leaf: a one-line text, the children shared.
TreeItem_new(label, children) == [text |-> <<label>>, children |-> children]

\* The heap of the forest d.
HeapOf(d) == [i \in 1..Len(d) |-> TreeItem_new(ItemLabels[i], ChildHandles(d, i))]

\* text.into(), of a text of n lines.
Text_from(label, n) == [i \in 1..n |-> label]

\* The heap of the forest d whose item i has a text of hs[i] lines.
HeapOfHeights(d, hs) ==
    [i \in 1..Len(d) |->
        [text |-> Text_from(ItemLabels[i], hs[i]), children |-> ChildHandles(d, i)]]

\* get_example_tree_items: [a, b(c, d(e, f), g), h]
ExampleDepths == <<1, 1, 2, 2, 3, 3, 2, 1>>

GeneratedForests == UNION {DepthSeqs(n) : n \in 0..MaxNodes}

FlattenForests == UNION {DepthSeqs(n) : n \in 0..MaxFlattenNodes} \cup {ExampleDepths}

\* TreeItem::height
height(item) == Len(item.text)

-----------------------------------------------------------------------------
(* flatten.rs                                                              *)

\* Flattened::depth: identifier.len() - 1, a usize subtraction.
Flattened_depth(f) == Len(f.identifier) - 1

\* A faulty variant of internal, kept to show what the properties below rule out: the children are listed before their parent.
RECURSIVE internal_children_first(_, _, _, _, _)
internal_children_first(heap, opened_, items_, current, index) ==
    IF index >= Len(items_) THEN <<>>
    ELSE LET item == items_[index + 1]
             child_identifier == Append(current, index)
             entry == [identifier |-> child_identifier, item |-> item]
             child_result ==
                 IF child_identifier \in opened_
                 THEN internal_children_first(heap, opened_, heap[item].children,
                                              child_identifier, 0)
                 ELSE <<>>
         IN child_result \o <<entry>>
                \o internal_children_first(heap, opened_, items_, current, index + 1)

\* A faulty variant of internal, kept to show what the properties below rule out: the openness of the parent is tested, not the
\* item's own, so the children of a root are listed whatever is open.
RECURSIVE internal_parent_gated(_, _, _, _, _)
internal_parent_gated(heap, opened_, items_, current, index) ==
    IF index >= Len(items_) THEN <<>>
    ELSE LET item == items_[index + 1]
             child_identifier == Append(current, index)
             entry == [identifier |-> child_identifier, item |-> item]
             child_result ==
                 IF current = <<>> \/ current \in opened_
                 THEN internal_parent_gated(heap, opened_, heap[item].children,
                                            child_identifier, 0)
                 ELSE <<>>
         IN <<entry>> \o child_result
                \o internal_parent_gated(heap, opened_, items_, current, index + 1)

\* internal: the loop over items.into_iter().enumerate(), from `index` on.
\* A faulty variant of internal, kept to show what the properties below rule out:
\* the children are numbered under the identifier of the level above.
RECURSIVE internal_flat_prefix(_, _, _, _, _)
internal_flat_prefix(heap, opened_, items_, current, index) ==
    IF index >= Len(items_) THEN <<>>
    ELSE LET item == items_[index + 1]
             child_identifier == Append(current, index)
             entry == [identifier |-> child_identifier, item |-> item]
             child_result ==
                 IF child_identifier \in opened_
                 THEN internal_flat_prefix(heap, opened_, heap[item].children,
                                           current, 0)
                 ELSE <<>>
         IN <<entry>> \o child_result
                \o internal_flat_prefix(heap, opened_, items_, current, index + 1)

\* A faulty variant of internal, kept to show what the properties below rule out:
\* an entry holds a copy of the item and no handle to a node of the tree
\* (0 is the handle of no node).
RECURSIVE internal_copying(_, _, _, _, _)
internal_copying(heap, opened_, items_, current, index) ==
    IF index >= Len(items_) THEN <<>>
    ELSE LET item == items_[index + 1]
             child_identifier == Append(current, index)
             entry == [identifier |-> child_identifier, item |-> 0]
             child_result ==
                 IF child_identifier \in opened_
                 THEN internal_copying(heap, opened_, heap[item].children,
                                       child_identifier, 0)
                 ELSE <<>>
         IN <<entry>> \o child_result
                \o internal_copying(heap, opened_, items_, current, index + 1)

RECURSIVE internal_from(_, _, _, _, _)
internal_from(heap, opened_, items_, current, index) ==
    IF index >= Len(items_) THEN <<>>
    ELSE LET item == items_[index + 1]
             child_identifier == Append(current, index)
             entry == [identifier |-> child_identifier, item |-> item]
             child_result ==
                 IF child_identifier \in opened_
                 THEN internal_from(heap, opened_, heap[item].children,
                                    child_identifier, 0)
                 ELSE <<>>
         IN <<entry>> \o child_result
                \o internal_from(heap, opened_, items_, current, index + 1)

internal(heap, opened_, items_, current) ==
    internal_from(heap, opened_, items_, current, 0)

flatten(heap, opened_, items_) == internal(heap, opened_, items_, <<>>)

-----------------------------------------------------------------------------
(* identifier.rs                                                           *)

\* get_without_leaf: the identifier without its last element (the empty
\* identifier for the empty identifier), and the last element or None.
get_identifier_without_leaf(identifier) ==
    LET length_without_leaf == saturating_sub(Len(identifier), 1)
    IN [head |-> SubSeq(identifier, 1, length_without_leaf),
        tail |-> IF Len(identifier) = 0 THEN None
                 ELSE identifier[Len(identifier)]]

-----------------------------------------------------------------------------
(* TreeState.  A state is [offset, opened, selected, panicked]; a method   *)
(* with a return value gives [state, ret].                                 *)

TreeState_default == [offset |-> 0, opened |-> {}, selected |-> <<>>,
                      panicked |-> FALSE]

\* A faulty variant of select, kept to show what the properties below rule out:
\* the scroll offset is reset whatever is selected.
select_resetting(s, identifier) ==
    [s EXCEPT !.selected = identifier, !.offset = 0]

select(s, identifier) ==
    LET s1 == [s EXCEPT !.selected = identifier]
    IN IF s1.selected = <<>> THEN [s1 EXCEPT !.offset = 0] ELSE s1

\* A faulty variant of open, kept to show what the properties below rule out: the empty identifier is inserted like any other.
open_unchecked(s, identifier) ==
    [state |-> [s EXCEPT !.opened = @ \cup {identifier}],
     ret |-> identifier \notin s.opened]

open(s, identifier) ==
    IF identifier = <<>>
    THEN [state |-> s, ret |-> FALSE]
    ELSE [state |-> [s EXCEPT !.opened = @ \cup {identifier}],
          ret |-> identifier \notin s.opened]

\* A faulty variant of close, kept to show what the properties below rule out: it reports that the item is closed now, not that it
\* was open.
close_reports_closed(s, identifier) ==
    [state |-> [s EXCEPT !.opened = @ \ {identifier}],
     ret |-> TRUE]

close(s, identifier) ==
    [state |-> [s EXCEPT !.opened = @ \ {identifier}],
     ret |-> identifier \in s.opened]

\* A faulty variant of toggle, kept to show what the properties below rule out:
\* the toggled node is selected as well.
toggle_selecting(s, identifier) ==
    IF identifier \in s.opened
    THEN select(close(s, identifier).state, identifier)
    ELSE select(open(s, identifier).state, identifier)

toggle(s, identifier) ==
    IF identifier \in s.opened
    THEN close(s, identifier).state
    ELSE open(s, identifier).state

\* A faulty variant of toggle_selected, kept to show what the properties below rule out:
\* the selected node is opened, never closed.
toggle_selected_opening(s) == open(s, s.selected).state

toggle_selected(s) == toggle(s, s.selected)

\* A faulty variant of close_all, kept to show what the properties below rule out:
\* a selection below a root is dropped with the open set.
close_all_deselecting(s) ==
    [s EXCEPT !.opened = {},
              !.selected = IF Len(@) > 1 THEN <<>> ELSE @]

close_all(s) == [s EXCEPT !.opened = {}]

select_first(s) == select(s, <<0>>)

\* A faulty variant of last_identifier, kept to show what the properties below rule out: the last root, whatever is open below it.
last_root_identifier(visible) ==
    LET roots == {i \in 1..Len(visible) : Len(visible[i].identifier) = 1}
    IN IF roots = {} THEN <<>>
       ELSE visible[CHOOSE i \in roots : \A j \in roots : j <= i].identifier

\* visible.last().map(|o| o.identifier().clone()).unwrap_or_default()
last_identifier(visible) ==
    IF Len(visible) = 0 THEN <<>> ELSE visible[Len(visible)].identifier

select_last(heap, items_, s) ==
    LET visible == flatten(heap, s.opened, items_)
    IN select(s, last_identifier(visible))

\* visible.iter().position(|o| *o.identifier() == identifier)
position(visible, identifier) ==
    LET hits == {i \in 1..Len(visible) : visible[i].identifier = identifier}
    IN IF hits = {} THEN None
       ELSE (CHOOSE i \in hits : \A j \in hits : i <= j) - 1

\* visible.get(new_index).map(|o| o.identifier().clone()).unwrap_or_default()
get_identifier(visible, new_index) ==
    IF new_index >= 0 /\ new_index < Len(visible)
    THEN visible[new_index + 1].identifier
    ELSE <<>>

\* A faulty variant of key_up_new_index, kept to show what the properties below rule out: a selection that is not found falls back to
\* the last entry.
key_up_new_index_falls_to_last(visible, current_index) ==
    IF current_index = None
    THEN [index |-> saturating_sub(Len(visible), 1), panic |-> FALSE]
    ELSE [index |-> min(saturating_sub(current_index, 1), Len(visible) - 1),
          panic |-> FALSE]

\* A faulty variant of key_up_new_index, kept to show what the properties below rule out: visible.len() - 1 is evaluated before the
\* lookup result is examined.
key_up_new_index_eager(visible, current_index) ==
    IF Len(visible) < 1 THEN [index |-> 0, panic |-> TRUE]
    ELSE IF current_index = None THEN [index |-> 0, panic |-> FALSE]
    ELSE [index |-> min(saturating_sub(current_index, 1), Len(visible) - 1),
          panic |-> FALSE]

\* The closure of key_up evaluates visible.len() - 1, which underflows on an
\* empty list: [index, panic].
key_up_new_index(visible, current_index) ==
    IF current_index = None THEN [index |-> 0, panic |-> FALSE]
    ELSE IF Len(visible) < 1 THEN [index |-> 0, panic |-> TRUE]
    ELSE [index |-> min(saturating_sub(current_index, 1), Len(visible) - 1),
          panic |-> FALSE]

\* A faulty variant of key_down_new_index, kept to show what the properties below rule out: the index is not clamped to the last entry.
key_down_new_index_unclamped(visible, current_index) ==
    IF current_index = None THEN [index |-> 0, panic |-> FALSE]
    ELSE [index |-> saturating_add(current_index, 1), panic |-> FALSE]

\* A faulty variant of key_down_new_index, kept to show what the properties below rule out:
\* from the last entry the first is taken.
key_down_new_index_wrapping(visible, current_index) ==
    IF current_index = None THEN [index |-> 0, panic |-> FALSE]
    ELSE IF Len(visible) < 1 THEN [index |-> 0, panic |-> TRUE]
    ELSE [index |-> IF current_index + 1 > Len(visible) - 1 THEN 0
                    ELSE current_index + 1,
          panic |-> FALSE]

\* A faulty variant of key_down_new_index, kept to show what the properties below rule out:
\* the entry after the next is taken.
key_down_new_index_by_two(visible, current_index) ==
    IF current_index = None THEN [index |-> 0, panic |-> FALSE]
    ELSE IF Len(visible) < 1 THEN [index |-> 0, panic |-> TRUE]
    ELSE [index |-> min(saturating_add(current_index, 2), Len(visible) - 1),
          panic |-> FALSE]

\* As the closure of key_up, with saturating_add.
key_down_new_index(visible, current_index) ==
    IF current_index = None THEN [index |-> 0, panic |-> FALSE]
    ELSE IF Len(visible) < 1 THEN [index |-> 0, panic |-> TRUE]
    ELSE [index |-> min(saturating_add(current_index, 1), Len(visible) - 1),
          panic |-> FALSE]

key_up(heap, items_, s) ==
    LET visible == flatten(heap, s.opened, items_)
        current_identifier == s.selected
        current_index == position(visible, current_identifier)
        new_index == key_up_new_index(visible, current_index)
        new_identifier == get_identifier(visible, new_index.index)
    IN IF new_index.panic THEN [s EXCEPT !.panicked = TRUE]
       ELSE select(s, new_identifier)

\* A faulty variant of key_down, kept to show what the properties below rule out: a selection that is not found is left in place.
key_down_keeps_stale(heap, items_, s) ==
    LET visible == flatten(heap, s.opened, items_)
        current_index == position(visible, s.selected)
        new_index == key_down_new_index(visible, current_index)
        new_identifier == get_identifier(visible, new_index.index)
    IN IF current_index = None THEN s
       ELSE select(s, new_identifier)

key_down(heap, items_, s) ==
    LET visible == flatten(heap, s.opened, items_)
        current_identifier == s.selected
        current_index == position(visible, current_identifier)
        new_index == key_down_new_index(visible, current_index)
        new_identifier == get_identifier(visible, new_index.index)
    IN IF new_index.panic THEN [s EXCEPT !.panicked = TRUE]
       ELSE select(s, new_identifier)

\* A faulty variant of key_left, kept to show what the properties below rule out:
\* the parent of a closed node is closed, and the node stays selected.
key_left_collapsing(s) ==
    LET selected_ == s.selected
        closed == close(s, selected_)
    IN IF ~closed.ret
       THEN close(closed.state, get_identifier_without_leaf(selected_).head).state
       ELSE closed.state

\* A faulty variant of key_left, kept to show what the properties below rule out:
\* a closed root stays selected.
key_left_rooted(s) ==
    LET selected_ == s.selected
        closed == close(s, selected_)
    IN IF ~closed.ret /\ Len(selected_) > 1
       THEN select(closed.state, get_identifier_without_leaf(selected_).head)
       ELSE closed.state

\* A faulty variant of key_left, kept to show what the properties below rule out:
\* the parent is selected when the node was closed by the call, not when it
\* was closed already.
key_left_inverted(s) ==
    LET selected_ == s.selected
        closed == close(s, selected_)
    IN IF closed.ret
       THEN select(closed.state, get_identifier_without_leaf(selected_).head)
       ELSE closed.state

key_left(s) ==
    LET selected_ == s.selected
        closed == close(s, selected_)
    IN IF ~closed.ret
       THEN select(closed.state, get_identifier_without_leaf(selected_).head)
       ELSE closed.state

\* A faulty variant of key_right, kept to show what the properties below rule out:
\* the selected node is closed when it is open.
key_right_toggling(s) == toggle(s, s.selected)

key_right(s) == open(s, s.selected).state

-----------------------------------------------------------------------------
(* Tree::render: the scroll window.                                        *)

\* The heights of the visible entries.
heights_of(heap, visible) ==
    [i \in 1..Len(visible) |-> height(heap[visible[i].item])]

\* if state.selected.is_empty() { 0 } else { position(..).unwrap_or(0) }
render_selected_index(visible, selected_) ==
    IF selected_ = <<>> THEN 0
    ELSE LET p == position(visible, selected_)
         IN IF p = None THEN 0 ELSE p

\* for flattened in visible.iter().skip(start): extend end while the height fits.
RECURSIVE fill_forward(_, _, _, _)
fill_forward(h, w, available_height, k) ==
    IF k >= Len(h) THEN w
    ELSE IF w.height + h[k + 1] > available_height THEN w
    ELSE fill_forward(h, [w EXCEPT !.height = @ + h[k + 1], !.end = @ + 1],
                      available_height, k + 1)

\* while height > available_height: drop visible[start].
RECURSIVE evict_front(_, _, _)
evict_front(h, w, available_height) ==
    IF w.panic \/ ~(w.height > available_height) THEN w
    ELSE IF w.start >= Len(h) THEN [w EXCEPT !.panic = TRUE]
    ELSE evict_front(h, [w EXCEPT !.height = saturating_sub(@, h[w.start + 1]),
                                  !.start = @ + 1],
                     available_height)

\* while selected_index >= end: take visible[end], then evict from the front.
RECURSIVE include_selected(_, _, _, _)
include_selected(h, w, available_height, selected_index) ==
    IF w.panic \/ ~(selected_index >= w.end) THEN w
    ELSE IF w.end >= Len(h) THEN [w EXCEPT !.panic = TRUE]
    ELSE include_selected(h,
             evict_front(h, [w EXCEPT !.height = saturating_add(@, h[w.end + 1]),
                                      !.end = @ + 1],
                         available_height),
             available_height, selected_index)

\* A faulty variant of scroll_window, kept to show what the properties below
\* rule out: the window always starts at the selected entry.
scroll_window_from_selected(h, offset_, selected_index, available_height) ==
    LET start == selected_index
        w0 == [start |-> start, end |-> start, height |-> 0, panic |-> FALSE]
        w1 == fill_forward(h, w0, available_height, start)
    IN include_selected(h, w1, available_height, selected_index)

\* The window [start, end) of render for the heights h of the visible list.
scroll_window(h, offset_, selected_index, available_height) ==
    LET start == min(offset_, selected_index)
        w0 == [start |-> start, end |-> start, height |-> 0, panic |-> FALSE]
        w1 == fill_forward(h, w0, available_height, start)
    IN include_selected(h, w1, available_height, selected_index)

\* The locals start, end and height of the forward loop before its first
\* pass and after each pass, in order.
RECURSIVE fill_forward_steps(_, _, _, _)
fill_forward_steps(h, w, available_height, k) ==
    IF k >= Len(h) THEN <<w>>
    ELSE IF w.height + h[k + 1] > available_height THEN <<w>>
    ELSE <<w>> \o fill_forward_steps(h,
                      [w EXCEPT !.height = @ + h[k + 1], !.end = @ + 1],
                      available_height, k + 1)

\* The locals before the inner while loop and after each of its passes; a
\* pass that reads visible[start] out of range ends the list with a panic.
RECURSIVE evict_front_steps(_, _, _)
evict_front_steps(h, w, available_height) ==
    IF w.panic \/ ~(w.height > available_height) THEN <<w>>
    ELSE IF w.start >= Len(h) THEN <<w, [w EXCEPT !.panic = TRUE]>>
    ELSE <<w>> \o evict_front_steps(h,
                      [w EXCEPT !.height = saturating_sub(@, h[w.start + 1]),
                                !.start = @ + 1],
                      available_height)

\* The locals before the outer while loop, after visible[end] is taken in
\* each pass and after each pass of the inner loop.
RECURSIVE include_selected_steps(_, _, _, _)
include_selected_steps(h, w, available_height, selected_index) ==
    IF w.panic \/ ~(selected_index >= w.end) THEN <<w>>
    ELSE IF w.end >= Len(h) THEN <<w, [w EXCEPT !.panic = TRUE]>>
    ELSE LET evicted ==
                 evict_front_steps(h,
                     [w EXCEPT !.height = saturating_add(@, h[w.end + 1]),
                               !.end = @ + 1],
                     available_height)
         IN <<w>> \o SubSeq(evicted, 1, Len(evicted) - 1)
                \o include_selected_steps(h, evicted[Len(evicted)],
                                          available_height, selected_index)

\* A faulty variant of scroll_window_steps, kept to show what the properties
\* below rule out: the window starts at the stored offset, wherever the
\* selected entry is.
scroll_window_steps_from_offset(h, offset_, selected_index, available_height) ==
    LET start == offset_
        w0 == [start |-> start, end |-> start, height |-> 0, panic |-> FALSE]
        filled == fill_forward_steps(h, w0, available_height, start)
    IN SubSeq(filled, 1, Len(filled) - 1)
           \o include_selected_steps(h, filled[Len(filled)], available_height,
                                     selected_index)

\* Every value the locals start, end and height take during the scroll
\* adjustment of render, from `let mut height = 0` to `state.offset = start`.
scroll_window_steps(h, offset_, selected_index, available_height) ==
    LET start == min(offset_, selected_index)
        w0 == [start |-> start, end |-> start, height |-> 0, panic |-> FALSE]
        filled == fill_forward_steps(h, w0, available_height, start)
    IN SubSeq(filled, 1, Len(filled) - 1)
           \o include_selected_steps(h, filled[Len(filled)], available_height,
                                     selected_index)

\* render, as far as the TreeState is concerned.
render(heap, items_, s, width, height_) ==
    IF width < 1 \/ height_ < 1 THEN s
    ELSE LET visible == flatten(heap, s.opened, items_)
         IN IF Len(visible) = 0 THEN s
            ELSE LET selected_index == render_selected_index(visible, s.selected)
                     w == scroll_window(heights_of(heap, visible), s.offset,
                                        selected_index, height_)
                 IN IF w.panic THEN [s EXCEPT !.panicked = TRUE]
                    ELSE [s EXCEPT !.offset = w.start]

\* The window render paints: whether the scroll adjustment was reached,
\* and the locals start, end and height after it.
render_window(heap, items_, s, width, height_) ==
    LET visible == flatten(heap, s.opened, items_)
        none == [ran |-> FALSE, start |-> 0, end |-> 0, height |-> 0,
                 panic |-> FALSE]
    IN IF width < 1 \/ height_ < 1 THEN none
       ELSE IF Len(visible) = 0 THEN none
       ELSE LET w == scroll_window(heights_of(heap, visible), s.offset,
                                   render_selected_index(visible, s.selected),
                                   height_)
            IN [ran |-> TRUE, start |-> w.start, end |-> w.end,
                height |-> w.height, panic |-> w.panic]

-----------------------------------------------------------------------------
(* reflow.rs: styled graphemes.  A StyledGrapheme is its symbol (the style *)
(* is carried along unchanged and left out).                               *)

NBSP == "nbsp"

\* The symbols of the model: a letter, a space, a two-column glyph, a
\* no-break space, a two-column (ideographic) space, a zero-width joiner
\* and a tab (a control character, of no width).  The empty symbol "" is
\* what LineTruncator puts in place of a symbol scrolled out of view.
Symbols == {"a", " ", "WW", NBSP, "__", "zw", "tab"}

\* UnicodeWidthStr::width
width(symbol) ==
    CASE symbol \in {"WW", "__"} -> 2
      [] symbol \in {"zw", "tab", ""} -> 0
      [] OTHER -> 1

\* symbol.chars().all(&char::is_whitespace)
is_whitespace(symbol) == symbol \in {" ", "__", "tab", NBSP, ""}

\* line.iter().map(|grapheme| grapheme.symbol.width()).sum()
RECURSIVE line_width_of(_)
line_width_of(line) ==
    IF line = <<>> THEN 0 ELSE width(Head(line)) + line_width_of(Tail(line))

Alignments == <<"Left", "Center", "Right">>

-----------------------------------------------------------------------------
(* WordWrapper::next_line: the wrapping of one logical line.  The locals   *)
(* of the loop over the symbols are the fields of the record w.            *)

wrap_start ==
    [wrapped_lines |-> <<>>,
     current_line |-> <<>>, current_line_width |-> 0,
     unfinished_word |-> <<>>, word_width |-> 0,
     unfinished_whitespaces |-> <<>>, whitespace_width |-> 0,
     has_seen_non_whitespace |-> FALSE]

\* A faulty variant of symbol_whitespace_of, kept to show what the
\* properties below rule out: a no-break space is whitespace like any other.
symbol_whitespace_of_breaking(symbol) == is_whitespace(symbol)

\* The symbol is whitespace, and no no-break space.
symbol_whitespace_of(symbol) == is_whitespace(symbol) /\ symbol # NBSP

\* "Append finished word to current line": whether, and the result.
word_boundary(w, symbol_whitespace, symbol_width, max_line_width, trim) ==
    \/ w.has_seen_non_whitespace /\ symbol_whitespace
    \/ /\ w.word_width + symbol_width > max_line_width
       /\ w.current_line = <<>>
       /\ trim
    \/ /\ w.whitespace_width + symbol_width > max_line_width
       /\ w.current_line = <<>>
       /\ trim
    \/ /\ w.word_width + w.whitespace_width + symbol_width > max_line_width
       /\ w.current_line = <<>>
       /\ ~trim

\* A faulty variant of append_word, kept to show what the properties below
\* rule out: the whitespaces are appended to an empty line with trim on too.
append_word_untrimmed(w, trim) ==
    [w EXCEPT !.current_line = (w.current_line \o w.unfinished_whitespaces)
                                   \o w.unfinished_word,
              !.current_line_width = w.current_line_width + w.whitespace_width
                                         + w.word_width,
              !.unfinished_word = <<>>,
              !.unfinished_whitespaces = <<>>,
              !.whitespace_width = 0,
              !.word_width = 0]

append_word(w, trim) ==
    LET with_whitespaces == w.current_line # <<>> \/ ~trim
        line1 == IF with_whitespaces
                 THEN w.current_line \o w.unfinished_whitespaces
                 ELSE w.current_line
        width1 == IF with_whitespaces
                  THEN w.current_line_width + w.whitespace_width
                  ELSE w.current_line_width
    IN [w EXCEPT !.current_line = line1 \o w.unfinished_word,
                 !.current_line_width = width1 + w.word_width,
                 !.unfinished_word = <<>>,
                 !.unfinished_whitespaces = <<>>,
                 !.whitespace_width = 0,
                 !.word_width = 0]

\* "Append the unfinished wrapped line to wrapped lines": whether.
line_is_full(w, symbol_width, max_line_width) ==
    \/ w.current_line_width >= max_line_width
    \/ /\ w.current_line_width + w.whitespace_width + w.word_width
             >= max_line_width
       /\ symbol_width > 0

\* The loop over unfinished_whitespaces.pop_front(): whitespaces are dropped
\* while they fit in remaining_width, and the first that does not fit is
\* dropped as well.  exhausted: first_whitespace ended as None.
RECURSIVE remove_whitespaces(_, _, _)
remove_whitespaces(whitespaces, whitespace_width, remaining_width) ==
    IF whitespaces = <<>>
    THEN [whitespaces |-> <<>>, whitespace_width |-> whitespace_width,
          exhausted |-> TRUE]
    ELSE LET symbol_width == width(Head(whitespaces))
         IN IF symbol_width > remaining_width
            THEN [whitespaces |-> Tail(whitespaces),
                  whitespace_width |-> whitespace_width - symbol_width,
                  exhausted |-> FALSE]
            ELSE remove_whitespaces(Tail(whitespaces),
                                    whitespace_width - symbol_width,
                                    remaining_width - symbol_width)

\* A faulty variant of wrap_symbol, kept to show what the properties below
\* rule out: after a line is sealed and the whitespaces are used up, the
\* symbol at hand is passed over whether it is whitespace or not.
wrap_symbol_dropping(w, symbol, max_line_width, trim) ==
    LET symbol_whitespace == symbol_whitespace_of(symbol)
        symbol_width == width(symbol)
    IN IF symbol_width > max_line_width THEN w
       ELSE
        LET w1 == IF word_boundary(w, symbol_whitespace, symbol_width,
                                   max_line_width, trim)
                  THEN append_word(w, trim)
                  ELSE w
            full == line_is_full(w1, symbol_width, max_line_width)
            remaining_width ==
                IF max_line_width - w1.current_line_width > 0
                THEN max_line_width - w1.current_line_width
                ELSE 0
            removed == remove_whitespaces(w1.unfinished_whitespaces,
                                          w1.whitespace_width, remaining_width)
            w2 == IF full
                  THEN [w1 EXCEPT !.wrapped_lines = Append(@, w1.current_line),
                                  !.current_line = <<>>,
                                  !.current_line_width = 0,
                                  !.unfinished_whitespaces = removed.whitespaces,
                                  !.whitespace_width = removed.whitespace_width]
                  ELSE w1
        IN IF full /\ removed.exhausted
           THEN w2
           ELSE IF symbol_whitespace
           THEN [w2 EXCEPT !.whitespace_width = @ + symbol_width,
                           !.unfinished_whitespaces = Append(@, symbol),
                           !.has_seen_non_whitespace = FALSE]
           ELSE [w2 EXCEPT !.word_width = @ + symbol_width,
                           !.unfinished_word = Append(@, symbol),
                           !.has_seen_non_whitespace = TRUE]

\* The body of the loop for one symbol.
wrap_symbol(w, symbol, max_line_width, trim) ==
    LET symbol_whitespace == symbol_whitespace_of(symbol)
        symbol_width == width(symbol)
    IN IF symbol_width > max_line_width THEN w
       ELSE
        LET w1 == IF word_boundary(w, symbol_whitespace, symbol_width,
                                   max_line_width, trim)
                  THEN append_word(w, trim)
                  ELSE w
            full == line_is_full(w1, symbol_width, max_line_width)
            remaining_width ==
                IF max_line_width - w1.current_line_width > 0
                THEN max_line_width - w1.current_line_width
                ELSE 0
            removed == remove_whitespaces(w1.unfinished_whitespaces,
                                          w1.whitespace_width, remaining_width)
            w2 == IF full
                  THEN [w1 EXCEPT !.wrapped_lines = Append(@, w1.current_line),
                                  !.current_line = <<>>,
                                  !.current_line_width = 0,
                                  !.unfinished_whitespaces = removed.whitespaces,
                                  !.whitespace_width = removed.whitespace_width]
                  ELSE w1
        IN IF full /\ symbol_whitespace /\ removed.exhausted
           THEN w2
           ELSE IF symbol_whitespace
           THEN [w2 EXCEPT !.whitespace_width = @ + symbol_width,
                           !.unfinished_whitespaces = Append(@, symbol),
                           !.has_seen_non_whitespace = FALSE]
           ELSE [w2 EXCEPT !.word_width = @ + symbol_width,
                           !.unfinished_word = Append(@, symbol),
                           !.has_seen_non_whitespace = TRUE]

\* A faulty variant of wrap_symbols, kept to show what the properties below
\* rule out: a symbol wider than max_line_width ends the logical line.
RECURSIVE wrap_symbols_stopping(_, _, _, _)
wrap_symbols_stopping(w, line_symbols, max_line_width, trim) ==
    IF line_symbols = <<>> THEN w
    ELSE IF width(Head(line_symbols)) > max_line_width THEN w
    ELSE wrap_symbols_stopping(
             wrap_symbol(w, Head(line_symbols), max_line_width, trim),
             Tail(line_symbols), max_line_width, trim)

RECURSIVE wrap_symbols(_, _, _, _)
wrap_symbols(w, line_symbols, max_line_width, trim) ==
    IF line_symbols = <<>> THEN w
    ELSE wrap_symbols(wrap_symbol(w, Head(line_symbols), max_line_width, trim),
                      Tail(line_symbols), max_line_width, trim)

\* A faulty variant of wrap_remaining, kept to show what the properties below rule out:
\* the whitespace left over is kept at the start of the line with trim on.
wrap_remaining_untrimmed(w, trim) ==
    LET has_rest == w.unfinished_word # <<>> \/ w.unfinished_whitespaces # <<>>
        only_whitespaces == w.current_line = <<>> /\ w.unfinished_word = <<>>
        wrapped1 == IF has_rest /\ only_whitespaces
                    THEN Append(w.wrapped_lines, <<>>)
                    ELSE w.wrapped_lines
        line1 == IF has_rest /\ ~only_whitespaces
                 THEN w.current_line \o w.unfinished_whitespaces
                 ELSE w.current_line
        line2 == IF has_rest THEN line1 \o w.unfinished_word ELSE line1
        wrapped2 == IF line2 # <<>> THEN Append(wrapped1, line2) ELSE wrapped1
    IN IF wrapped2 = <<>> THEN <<(<<>>)>> ELSE wrapped2

\* A faulty variant of wrap_remaining, kept to show what the properties below rule out:
\* no empty line is pushed when there was nothing to wrap.
wrap_remaining_nothing(w, trim) ==
    LET has_rest == w.unfinished_word # <<>> \/ w.unfinished_whitespaces # <<>>
        only_whitespaces == w.current_line = <<>> /\ w.unfinished_word = <<>>
        wrapped1 == IF has_rest /\ only_whitespaces
                    THEN Append(w.wrapped_lines, <<>>)
                    ELSE w.wrapped_lines
        line1 == IF has_rest /\ ~only_whitespaces
                    /\ (~trim \/ w.current_line # <<>>)
                 THEN w.current_line \o w.unfinished_whitespaces
                 ELSE w.current_line
        line2 == IF has_rest THEN line1 \o w.unfinished_word ELSE line1
    IN IF line2 # <<>> THEN Append(wrapped1, line2) ELSE wrapped1

\* "Append remaining text parts", and the wrapped lines of the logical line.
wrap_remaining(w, trim) ==
    LET has_rest == w.unfinished_word # <<>> \/ w.unfinished_whitespaces # <<>>
        only_whitespaces == w.current_line = <<>> /\ w.unfinished_word = <<>>
        wrapped1 == IF has_rest /\ only_whitespaces
                    THEN Append(w.wrapped_lines, <<>>)
                    ELSE w.wrapped_lines
        line1 == IF has_rest /\ ~only_whitespaces
                    /\ (~trim \/ w.current_line # <<>>)
                 THEN w.current_line \o w.unfinished_whitespaces
                 ELSE w.current_line
        line2 == IF has_rest THEN line1 \o w.unfinished_word ELSE line1
        wrapped2 == IF line2 # <<>> THEN Append(wrapped1, line2) ELSE wrapped1
    IN IF wrapped2 = <<>> THEN <<(<<>>)>> ELSE wrapped2

\* The wrapped lines of one logical line.
wrap_line(line_symbols, max_line_width, trim) ==
    wrap_remaining(wrap_symbols(wrap_start, line_symbols, max_line_width, trim),
                   trim)

-----------------------------------------------------------------------------
(* WordWrapper                                                             *)

\* Option<(&[StyledGrapheme], u16, Alignment)>
NoLine == [some |-> FALSE, line |-> <<>>, width |-> 0, alignment |-> "Left"]
SomeLine(line, line_width, alignment) ==
    [some |-> TRUE, line |-> line, width |-> line_width, alignment |-> alignment]

\* WordWrapper::new.  wrapped_lines is an Option<IntoIter<..>>: whether it
\* is Some, and what is left of the iterator.
WordWrapper_new(lines, max_line_width, trim) ==
    [kind |-> "WordWrapper",
     input_lines |-> lines,
     max_line_width |-> max_line_width,
     wrapped_lines |-> [some |-> FALSE, rest |-> <<>>],
     current_alignment |-> "Left",
     current_line |-> <<>>,
     trim |-> trim]

\* WordWrapper::next_line: [composer, ret].  The loop "while
\* current_line.is_none()" takes a wrapped line that is left, or else wraps
\* the next logical line and goes round again.
RECURSIVE WordWrapper_next_line(_)
WordWrapper_next_line(c) ==
    IF c.max_line_width = 0 THEN [composer |-> c, ret |-> NoLine]
    ELSE IF c.wrapped_lines.some /\ c.wrapped_lines.rest # <<>>
    THEN LET line == Head(c.wrapped_lines.rest)
         IN [composer |-> [c EXCEPT !.wrapped_lines.rest = Tail(@),
                                    !.current_line = line],
             ret |-> SomeLine(line, line_width_of(line), c.current_alignment)]
    ELSE IF c.input_lines # <<>>
    THEN LET next == Head(c.input_lines)
             wrapped == wrap_line(next.symbols, c.max_line_width, c.trim)
         IN WordWrapper_next_line(
                [c EXCEPT !.input_lines = Tail(@),
                          !.current_alignment = next.alignment,
                          !.wrapped_lines = [some |-> TRUE, rest |-> wrapped]])
    ELSE [composer |-> c, ret |-> NoLine]

-----------------------------------------------------------------------------
(* LineTruncator                                                           *)

\* trim_offset, of a symbol that is one grapheme: the grapheme is skipped
\* when it is no wider than the offset, and is left whole otherwise.
trim_offset(src, offset_) == IF width(src) <= offset_ THEN "" ELSE src

\* LineTruncator::new
LineTruncator_new(lines, max_line_width) ==
    [kind |-> "LineTruncator",
     input_lines |-> lines,
     max_line_width |-> max_line_width,
     horizontal_offset |-> 0,
     current_line |-> <<>>]

\* LineTruncator::set_horizontal_offset
set_horizontal_offset(c, horizontal_offset) ==
    [c EXCEPT !.horizontal_offset = horizontal_offset]

\* The locals of LineTruncator::next_line before the loop over the symbols.
truncate_start(horizontal_offset) ==
    [current_line |-> <<>>, current_line_width |-> 0,
     horizontal_offset |-> horizontal_offset]

\* A faulty variant of truncate_symbols, kept to show what the properties below rule out:
\* a symbol that does not fit is passed over and the loop goes on.
RECURSIVE truncate_symbols_skipping(_, _, _, _)
truncate_symbols_skipping(t, line_symbols, max_line_width, alignment) ==
    IF line_symbols = <<>> THEN t
    ELSE LET symbol == Head(line_symbols)
             rest == Tail(line_symbols)
         IN IF width(symbol) > max_line_width
               \/ t.current_line_width + width(symbol) > max_line_width
            THEN truncate_symbols_skipping(t, rest, max_line_width, alignment)
            ELSE truncate_symbols_skipping(
                     [t EXCEPT !.current_line = Append(@, symbol),
                               !.current_line_width = @ + width(symbol)],
                     rest, max_line_width, alignment)

\* for StyledGrapheme { symbol, style } in current_line { .. }
RECURSIVE truncate_symbols(_, _, _, _)
truncate_symbols(t, line_symbols, max_line_width, alignment) ==
    IF line_symbols = <<>> THEN t
    ELSE LET symbol == Head(line_symbols)
             rest == Tail(line_symbols)
             w == width(symbol)
             whole == t.horizontal_offset = 0 \/ alignment # "Left"
             sliced == w > t.horizontal_offset
             shown == IF whole THEN symbol
                      ELSE IF sliced THEN trim_offset(symbol, t.horizontal_offset)
                      ELSE ""
             horizontal_offset == IF whole THEN t.horizontal_offset
                                  ELSE IF sliced THEN 0
                                  ELSE t.horizontal_offset - w
         IN IF w > max_line_width
            THEN truncate_symbols(t, rest, max_line_width, alignment)
            ELSE IF t.current_line_width + w > max_line_width THEN t
            ELSE truncate_symbols(
                     [t EXCEPT !.current_line = Append(@, shown),
                               !.current_line_width = @ + width(shown),
                               !.horizontal_offset = horizontal_offset],
                     rest, max_line_width, alignment)

\* A faulty variant of LineTruncator_next_line, kept to show what the properties below rule out:
\* a logical line of which nothing is shown is passed over.
LineTruncator_next_line_dropping(c) ==
    IF c.max_line_width = 0 THEN [composer |-> c, ret |-> NoLine]
    ELSE IF c.input_lines = <<>>
    THEN [composer |-> [c EXCEPT !.current_line = <<>>], ret |-> NoLine]
    ELSE LET next == Head(c.input_lines)
             t == truncate_symbols(truncate_start(c.horizontal_offset),
                                   next.symbols, c.max_line_width, next.alignment)
         IN [composer |-> [c EXCEPT !.input_lines = Tail(@),
                                    !.current_line = t.current_line],
             ret |-> IF t.current_line = <<>> THEN NoLine
                     ELSE SomeLine(t.current_line, t.current_line_width,
                                   next.alignment)]

\* A faulty variant of LineTruncator_next_line, kept to show what the properties below rule out:
\* max_line_width = 0 is not tested first.
LineTruncator_next_line_unguarded(c) ==
    IF c.input_lines = <<>>
    THEN [composer |-> [c EXCEPT !.current_line = <<>>], ret |-> NoLine]
    ELSE LET next == Head(c.input_lines)
             t == truncate_symbols(truncate_start(c.horizontal_offset),
                                   next.symbols, c.max_line_width, next.alignment)
         IN [composer |-> [c EXCEPT !.input_lines = Tail(@),
                                    !.current_line = t.current_line],
             ret |-> SomeLine(t.current_line, t.current_line_width,
                              next.alignment)]

\* LineTruncator::next_line: [composer, ret].
LineTruncator_next_line(c) ==
    IF c.max_line_width = 0 THEN [composer |-> c, ret |-> NoLine]
    ELSE IF c.input_lines = <<>>
    THEN [composer |-> [c EXCEPT !.current_line = <<>>], ret |-> NoLine]
    ELSE LET next == Head(c.input_lines)
             t == truncate_symbols(truncate_start(c.horizontal_offset),
                                   next.symbols, c.max_line_width, next.alignment)
         IN [composer |-> [c EXCEPT !.input_lines = Tail(@),
                                    !.current_line = t.current_line],
             ret |-> SomeLine(t.current_line, t.current_line_width,
                              next.alignment)]

-----------------------------------------------------------------------------
(* The identifiers the operations are called with.                         *)

\* The identifiers of all items of the tree, whether visible or not.
RECURSIVE addresses_from(_, _, _, _)
addresses_from(heap, items_, current, index) ==
    IF index >= Len(items_) THEN {}
    ELSE LET id == Append(current, index)
         IN {id} \cup addresses_from(heap, heap[items_[index + 1]].children, id, 0)
                 \cup addresses_from(heap, items_, current, index + 1)

Addresses(heap, items_) == addresses_from(heap, items_, <<>>, 0)

\* The item an identifier addresses, by indexed child lookup from the roots
\* (None when it addresses no item).
RECURSIVE ItemAt(_, _, _)
ItemAt(heap, items_, id) ==
    IF id = <<>> \/ id[1] >= Len(items_) THEN None
    ELSE IF Len(id) = 1 THEN items_[id[1] + 1]
    ELSE ItemAt(heap, heap[items_[id[1] + 1]].children, Tail(id))

\* Identifiers that address no item: one past the last child of every item,
\* and one past the last root.
StaleIdentifiers(heap, items_) ==
    {<<Len(items_)>>}
        \cup {Append(id, Len(heap[ItemAt(heap, items_, id)].children)) :
                 id \in Addresses(heap, items_)}

\* The identifiers a flatten call may find in its open set.
Identifiers(heap, items_) ==
    {<<>>} \cup Addresses(heap, items_) \cup StaleIdentifiers(heap, items_)

\* The identifiers select, open, close and toggle are called with: no
\* selection, every item of the tree, and one identifier of no item.
CalledIdentifiers(heap, items_) ==
    {<<>>} \cup Addresses(heap, items_) \cup {<<Len(items_)>>}

-----------------------------------------------------------------------------------------------------------------------------------------------------
(* The navigation state machine.  The application owns the tree (nodes,    *)
(* items) and a TreeState; select_last, key_up, key_down take the items as *)
(* an argument and Tree::new takes them for render: they are called with   *)
(* the application's tree, or with no items at all.                        *)

\* No line composer is in use.
NoComposer ==
    /\ input = <<>>
    /\ composer = <<>>
    /\ result = <<>>
    /\ emitted = <<>>
    /\ pulls = 0

State == [offset |-> offset, opened |-> opened, selected |-> selected,
          panicked |-> panicked]

Pre == [offset |-> offset, opened |-> opened, selected |-> selected]

ItemsArguments == {items, <<>>}

\* The operation `op`, called with `arg` on the items `its`, took the state
\* to s and returned ret.
Becomes(s, op, arg, its, ret) ==
    /\ offset' = s.offset
    /\ opened' = s.opened
    /\ selected' = s.selected
    /\ panicked' = s.panicked
    /\ last' = [op |-> op, arg |-> arg, items |-> its, ret |-> ret, pre |-> Pre]
    /\ UNCHANGED <<nodes, items, flat>>
    /\ UNCHANGED composerVars

Init ==
    /\ \E d \in GeneratedForests :
          /\ nodes = HeapOf(d)
          /\ items = RootHandles(d)
    /\ offset = TreeState_default.offset
    /\ opened = TreeState_default.opened
    /\ selected = TreeState_default.selected
    /\ panicked = TreeState_default.panicked
    /\ last = [op |-> "default", arg |-> <<>>, items |-> items, ret |-> FALSE,
               pre |-> Pre]
    /\ flat = <<>>
    /\ NoComposer

Select ==
    \E id \in CalledIdentifiers(nodes, items) :
        Becomes(select(State, id), "select", id, items, FALSE)

Open ==
    \E id \in CalledIdentifiers(nodes, items) :
        LET r == open(State, id) IN Becomes(r.state, "open", id, items, r.ret)

Close ==
    \E id \in CalledIdentifiers(nodes, items) :
        LET r == close(State, id) IN Becomes(r.state, "close", id, items, r.ret)

Toggle ==
    \E id \in CalledIdentifiers(nodes, items) :
        Becomes(toggle(State, id), "toggle", id, items, FALSE)

ToggleSelected ==
    /\ TRUE
    /\ Becomes(toggle_selected(State), "toggle_selected", <<>>, items, FALSE)

CloseAll ==
    /\ TRUE
    /\ Becomes(close_all(State), "close_all", <<>>, items, FALSE)

SelectFirst ==
    /\ TRUE
    /\ Becomes(select_first(State), "select_first", <<>>, items, FALSE)

SelectLast ==
    \E its \in ItemsArguments :
        Becomes(select_last(nodes, its, State), "select_last", <<>>, its, FALSE)

KeyUp ==
    \E its \in ItemsArguments :
        Becomes(key_up(nodes, its, State), "key_up", <<>>, its, FALSE)

KeyDown ==
    \E its \in ItemsArguments :
        Becomes(key_down(nodes, its, State), "key_down", <<>>, its, FALSE)

KeyLeft ==
    /\ TRUE
    /\ Becomes(key_left(State), "key_left", <<>>, items, FALSE)

KeyRight ==
    /\ TRUE
    /\ Becomes(key_right(State), "key_right", <<>>, items, FALSE)

\* flatten(&state.get_all_opened(), items), called by the application: the
\* list is returned, and the state is only read.
Flatten ==
    \E its \in ItemsArguments :
        Becomes(State, "flatten", <<>>, its, flatten(nodes, opened, its))

\* The areas render is given, as <<width, height>>: one of no width, and
\* every height from none to MaxAreaHeight.
RenderAreas ==
    {<<0, MaxAreaHeight>>} \cup {<<MaxAreaWidth, h>> : h \in 0..MaxAreaHeight}

Render ==
    \E its \in ItemsArguments, area \in RenderAreas :
        Becomes(render(nodes, its, State, area[1], area[2]), "render",
                area, its, FALSE)

Next ==
    \/ Select
    \/ Open
    \/ Close
    \/ Toggle
    \/ ToggleSelected
    \/ CloseAll
    \/ SelectFirst
    \/ SelectLast
    \/ KeyUp
    \/ KeyDown
    \/ KeyLeft
    \/ KeyRight
    \/ Render
    \/ Flatten

Spec == Init /\ [][Next]_vars

-----------------------------------------------------------------------------
(* flatten as a pure function: the tree and the open set are drawn, then   *)
(* flatten is called once.                                                 *)

\* The subsets of U with at most k elements.
RECURSIVE SubsetsUpTo(_, _)
SubsetsUpTo(U, k) ==
    IF k = 0 THEN {{}}
    ELSE LET P == SubsetsUpTo(U, k - 1)
         IN P \cup {S \cup {x} : S \in P, x \in U}

InitFlatten ==
    /\ \E d \in FlattenForests :
          /\ nodes = HeapOf(d)
          /\ items = RootHandles(d)
    /\ opened \in SubsetsUpTo(Identifiers(nodes, items), MaxOpened)
    /\ offset = 0
    /\ selected = <<>>
    /\ panicked = FALSE
    /\ last = [op |-> "input", arg |-> <<>>, items |-> items, ret |-> FALSE,
               pre |-> Pre]
    /\ flat = <<>>
    /\ NoComposer

FlattenCall ==
    /\ last.op = "input"
    /\ flat' = flatten(nodes, opened, items)
    /\ last' = [op |-> "flatten", arg |-> <<>>, items |-> items, ret |-> FALSE,
                pre |-> Pre]
    /\ UNCHANGED <<nodes, items, offset, opened, selected, panicked>>
    /\ UNCHANGED composerVars

NextFlatten == FlattenCall

SpecFlatten == InitFlatten /\ [][NextFlatten]_vars

-----------------------------------------------------------------------------
(* The scroll window of render: a tree of items with texts of any number   *)
(* of lines, an open set, a selection and a scroll offset left by earlier  *)
(* calls are drawn, then the tree is rendered again and again.             *)

InitWindow ==
    /\ \E d \in GeneratedForests :
          \E hs \in [1..Len(d) -> 0..MaxItemHeight] :
              /\ nodes = HeapOfHeights(d, hs)
              /\ items = RootHandles(d)
    /\ opened \in SUBSET Addresses(nodes, items)
    /\ selected \in CalledIdentifiers(nodes, items)
    /\ offset \in 0..MaxNodes
    /\ panicked = FALSE
    /\ last = [op |-> "input", arg |-> <<>>, items |-> items, ret |-> FALSE,
               pre |-> Pre]
    /\ flat = <<>>
    /\ NoComposer

RenderWindow ==
    /\ TRUE
    /\ \E area \in RenderAreas :
        Becomes(render(nodes, items, State, area[1], area[2]), "render",
                area, items,
                render_window(nodes, items, State, area[1], area[2]))

NextWindow == RenderWindow

SpecWindow == InitWindow /\ [][NextWindow]_vars

-----------------------------------------------------------------------------
(* The same key again and again: a tree, an open set, a selection and a    *)
(* scroll offset left by earlier calls are drawn, then key_down, key_up    *)
(* and key_left are called on the tree.  last.ret counts the calls of      *)
(* last.op in a row and last.pre is the state before the first of them.    *)

InitRuns ==
    /\ \E d \in GeneratedForests :
          /\ nodes = HeapOf(d)
          /\ items = RootHandles(d)
    /\ opened \in SUBSET Addresses(nodes, items)
    /\ selected \in CalledIdentifiers(nodes, items)
    /\ offset \in 0..MaxNodes
    /\ panicked = FALSE
    /\ last = [op |-> "input", arg |-> <<>>, items |-> items, ret |-> 0,
               pre |-> Pre]
    /\ flat = <<>>
    /\ NoComposer

\* The operation `op` took the state to s, in a row of calls of `op` or as
\* the first of one.
Again(s, op) ==
    /\ last.op = op => last.ret < MaxRun
    /\ offset' = s.offset
    /\ opened' = s.opened
    /\ selected' = s.selected
    /\ panicked' = s.panicked
    /\ last' = [op |-> op, arg |-> <<>>, items |-> items,
                ret |-> IF last.op = op THEN last.ret + 1 ELSE 1,
                pre |-> IF last.op = op THEN last.pre ELSE Pre]
    /\ UNCHANGED <<nodes, items, flat>>
    /\ UNCHANGED composerVars

KeyDownAgain ==
    /\ TRUE
    /\ Again(key_down(nodes, items, State), "key_down")

KeyUpAgain ==
    /\ TRUE
    /\ Again(key_up(nodes, items, State), "key_up")

KeyLeftAgain ==
    /\ TRUE
    /\ Again(key_left(State), "key_left")

NextRuns ==
    \/ KeyDownAgain
    \/ KeyUpAgain
    \/ KeyLeftAgain

SpecRuns == InitRuns /\ [][NextRuns]_vars

-----------------------------------------------------------------------------
(* Shared tree items: a tree is built, then flatten is called on it again  *)
(* and again, and between the calls the holder of a SharedTreeItem changes *)
(* the item behind it.  flat is what the latest flatten call returned and  *)
(* last.ret what the call before it returned; after a change last.arg is   *)
(* the handle of the item changed and last.pre the item as it was.         *)

\* The text an item is given in place of its own.
ChangedText == Text_from("x", 2)

InitShared ==
    /\ \E d \in UNION {DepthSeqs(n) : n \in 0..(MaxSharedNodes - 1)} :
          /\ nodes = HeapOf(d)
          /\ items = RootHandles(d)
    /\ opened = {}
    /\ offset = 0
    /\ selected = <<>>
    /\ panicked = FALSE
    /\ last = [op |-> "input", arg |-> <<>>, items |-> items, ret |-> <<>>,
               pre |-> <<>>]
    /\ flat = <<>>
    /\ NoComposer

\* flatten(&opened, &items), the entries returned being kept.
FlattenShared ==
    /\ \E opened_ \in SUBSET Addresses(nodes, items) :
          /\ opened' = opened_
          /\ flat' = flatten(nodes, opened_, items)
    /\ last' = [op |-> "flatten", arg |-> <<>>, items |-> items, ret |-> flat,
                pre |-> <<>>]
    /\ UNCHANGED <<nodes, items, offset, selected, panicked>>
    /\ UNCHANGED composerVars

\* item.borrow_mut().add_child(Rc::new(RefCell::new(TreeItem::new_leaf(..))))
AddChild ==
    /\ Len(nodes) < MaxSharedNodes
    /\ \E h \in 1..Len(nodes) :
          /\ nodes' = Append([nodes EXCEPT ![h].children = Append(@, Len(nodes) + 1)],
                             TreeItem_new(ItemLabels[Len(nodes) + 1], <<>>))
          /\ last' = [op |-> "add_child", arg |-> <<h>>, items |-> items,
                      ret |-> last.ret, pre |-> nodes[h]]
    /\ UNCHANGED <<items, offset, opened, selected, panicked, flat>>
    /\ UNCHANGED composerVars

\* *item.borrow_mut() = an item of another text with the same children.
SetText ==
    /\ \E h \in 1..Len(nodes) :
          /\ nodes[h].text # ChangedText
          /\ nodes' = [nodes EXCEPT ![h].text = ChangedText]
          /\ last' = [op |-> "set_text", arg |-> <<h>>, items |-> items,
                      ret |-> last.ret, pre |-> nodes[h]]
    /\ UNCHANGED <<items, offset, opened, selected, panicked, flat>>
    /\ UNCHANGED composerVars

NextShared ==
    \/ FlattenShared
    \/ AddChild
    \/ SetText

SpecShared == InitShared /\ [][NextShared]_vars

-----------------------------------------------------------------------------
(* The word-wrap composer: it is constructed on drawn logical lines, then  *)
(* next_line is called again and again.                                    *)

\* The sequences over S of length at most n.
SeqsUpTo(S, n) == UNION {[1..k -> S] : k \in 0..n}

\* The inputs: no line, one logical line over all symbols, or two short
\* logical lines of letters, spaces and two-column glyphs; the k-th
\* logical line has the k-th alignment.
ComposerInputs ==
    {<<>>}
        \cup {<<[symbols |-> l, alignment |-> Alignments[1]]>> :
                 l \in SeqsUpTo(Symbols, MaxLineLen)}
        \cup {<<[symbols |-> l1, alignment |-> Alignments[1]],
                [symbols |-> l2, alignment |-> Alignments[2]]>> :
                 l1 \in SeqsUpTo({"a", " ", "WW"}, MaxShortLen),
                 l2 \in SeqsUpTo({"a", " ", "WW"}, MaxShortLen)}

NoTree ==
    /\ nodes = <<>>
    /\ items = <<>>
    /\ offset = 0
    /\ opened = {}
    /\ selected = <<>>
    /\ panicked = FALSE
    /\ last = [op |-> "none", arg |-> <<>>, items |-> <<>>, ret |-> FALSE,
               pre |-> Pre]
    /\ flat = <<>>

InitWrap ==
    /\ NoTree
    /\ input \in ComposerInputs
    /\ \E max_line_width \in 0..MaxWidth, trim \in BOOLEAN :
          composer = WordWrapper_new(input, max_line_width, trim)
    /\ result = NoLine
    /\ emitted = <<>>
    /\ pulls = 0

NextLine ==
    /\ pulls < MaxPulls
    /\ composer.kind = "WordWrapper"
    /\ LET r == WordWrapper_next_line(composer)
       IN /\ composer' = r.composer
          /\ result' = r.ret
          /\ emitted' = IF r.ret.some THEN Append(emitted, r.ret) ELSE emitted
    /\ pulls' = pulls + 1
    /\ UNCHANGED <<input, treeVars>>

NextWrap == NextLine

SpecWrap == InitWrap /\ [][NextWrap]_vars

-----------------------------------------------------------------------------
(* The truncating composer: it is constructed on drawn logical lines, its  *)
(* horizontal offset is set, then next_line is called again and again.     *)

\* The inputs: no line, one logical line over all symbols, left-aligned or
\* not, or two short logical lines.
TruncatorInputs ==
    {<<>>}
        \cup {<<[symbols |-> l, alignment |-> a]>> :
                 l \in SeqsUpTo(Symbols, MaxLineLen),
                 a \in {Alignments[1], Alignments[3]}}
        \cup {<<[symbols |-> l1, alignment |-> Alignments[1]],
                [symbols |-> l2, alignment |-> Alignments[2]]>> :
                 l1 \in SeqsUpTo({"a", " ", "WW"}, MaxShortLen),
                 l2 \in SeqsUpTo({"a", " ", "WW"}, MaxShortLen)}

InitTruncate ==
    /\ NoTree
    /\ input \in TruncatorInputs
    /\ \E max_line_width \in 0..MaxWidth, horizontal_offset \in 0..MaxOffset :
          composer = set_horizontal_offset(
                         LineTruncator_new(input, max_line_width),
                         horizontal_offset)
    /\ result = NoLine
    /\ emitted = <<>>
    /\ pulls = 0

NextLineTruncate ==
    /\ pulls < MaxPulls
    /\ composer.kind = "LineTruncator"
    /\ LET r == LineTruncator_next_line(composer)
       IN /\ composer' = r.composer
          /\ result' = r.ret
          /\ emitted' = IF r.ret.some THEN Append(emitted, r.ret) ELSE emitted
    /\ pulls' = pulls + 1
    /\ UNCHANGED <<input, treeVars>>

NextTruncate == NextLineTruncate

SpecTruncate == InitTruncate /\ [][NextTruncate]_vars

-----------------------------------------------------------------------------
(* Either composer, behind the LineComposer trait.                         *)

InitComposers == InitWrap \/ InitTruncate

NextComposers ==
    \/ NextLine
    \/ NextLineTruncate

SpecComposers == InitComposers /\ [][NextComposers]_vars

-----------------------------------------------------------------------------
(* Notions the properties are stated with.                                 *)

\* p is a proper prefix of q.
IsProperPrefix(p, q) == Len(p) < Len(q) /\ SubSeq(q, 1, Len(p)) = p

\* p comes before q in pre-order: p is a proper prefix of q, or at the first
\* place where they differ p has the smaller child index.
PreOrderBefore(p, q) ==
    \/ IsProperPrefix(p, q)
    \/ \E k \in 1..min(Len(p), Len(q)) :
          /\ SubSeq(p, 1, k - 1) = SubSeq(q, 1, k - 1)
          /\ p[k] < q[k]

\* The identifiers and the labels of a flattened list, in order.
IdentifiersOf(visible) == [i \in 1..Len(visible) |-> visible[i].identifier]
LabelsOf(heap, visible) == [i \in 1..Len(visible) |-> heap[visible[i].item].text[1]]
IdentifierSet(visible) == {visible[i].identifier : i \in 1..Len(visible)}

\* The identifier addresses an item.
AddressesItem(heap, items_, id) == ItemAt(heap, items_, id) # None

IsExampleTree == nodes = HeapOf(ExampleDepths) /\ items = RootHandles(ExampleDepths)

-----------------------------------------------------------------------------
(* C1: flatten returns the pre-order depth-first listing gated by          *)
(* openness.  Every entry pairs an identifier with the item it addresses;  *)
(* the identifiers are in strict pre-order (an item before its children,   *)
(* siblings in child-list order); every root is listed; the children of a  *)
(* listed item are all listed, the first of them directly after it, when   *)
(* its identifier is in the open set, and none of them is listed when it   *)
(* is not.  On the example tree [a, b(c, d(e, f), g), h] the labels are    *)
(* [a,b,h] for {}, [a,b,c,d,g,h] for {[1]} and [a,b,c,d,e,f,g,h] for       *)
(* {[1],[1,1]}.                                                            *)
C1_FlattenPreOrder ==
    last.op = "flatten" =>
        LET ids == IdentifiersOf(flat)
            n == Len(flat)
        IN /\ \A i \in 1..n : flat[i].item = ItemAt(nodes, items, ids[i])
           /\ \A i \in 1..n, j \in 1..n : i < j => PreOrderBefore(ids[i], ids[j])
           /\ \A r \in 0..(Len(items) - 1) : <<r>> \in IdentifierSet(flat)
           /\ \A i \in 1..n :
                 LET children == nodes[flat[i].item].children
                 IN IF ids[i] \in opened
                    THEN /\ \A k \in 0..(Len(children) - 1) :
                                Append(ids[i], k) \in IdentifierSet(flat)
                         /\ Len(children) > 0 =>
                                i < n /\ ids[i + 1] = Append(ids[i], 0)
                    ELSE \A j \in 1..n : ~IsProperPrefix(ids[i], ids[j])
           /\ IsExampleTree /\ opened = {} =>
                 LabelsOf(nodes, flat) = <<"a", "b", "h">>
           /\ IsExampleTree /\ opened = {<<1>>} =>
                 LabelsOf(nodes, flat) = <<"a", "b", "c", "d", "g", "h">>
           /\ IsExampleTree /\ opened = {<<1>>, <<1, 1>>} =>
                 LabelsOf(nodes, flat) = <<"a", "b", "c", "d", "e", "f", "g", "h">>

\* The example tree with b and d open has been flattened to all eight items.
C1_Witness ==
    /\ last.op = "flatten"
    /\ IsExampleTree
    /\ opened = {<<1>>, <<1, 1>>}
    /\ Len(flat) = 8

\* Every proper non-empty prefix of the identifier is in the open set.
OpenPrefixes(id, opened_) ==
    \A k \in 1..(Len(id) - 1) : SubSeq(id, 1, k) \in opened_

\* The entries of the open set that address no item, a childless item, or an
\* item with a closed ancestor.
UselessOpened(heap, items_, opened_) ==
    {x \in opened_ :
        \/ ~AddressesItem(heap, items_, x)
        \/ heap[ItemAt(heap, items_, x)].children = <<>>
        \/ ~OpenPrefixes(x, opened_)}

(* C2: an identifier is in the flatten output iff it addresses an item and *)
(* every proper non-empty prefix of it is in the open set.  So every root  *)
(* is listed for every open set, and the entries of the open set that      *)
(* address a childless item, no item, or an item with a closed ancestor do *)
(* not change the output; {[0],[1,1]} on the example tree gives [a,b,h].   *)
C2_FlattenMembership ==
    last.op = "flatten" =>
        /\ \A id \in Identifiers(nodes, items) \cup opened \cup IdentifierSet(flat) :
              id \in IdentifierSet(flat)
                  <=> AddressesItem(nodes, items, id) /\ OpenPrefixes(id, opened)
        /\ \A r \in 0..(Len(items) - 1) : <<r>> \in IdentifierSet(flat)
        /\ \A U \in SUBSET UselessOpened(nodes, items, opened) :
              flatten(nodes, opened \ U, items) = flat
        /\ IsExampleTree /\ opened = {<<0>>, <<1, 1>>} =>
              LabelsOf(nodes, flat) = <<"a", "b", "h">>

\* The example tree has been flattened with a childless item and an item
\* under a closed ancestor in the open set.
C2_Witness ==
    /\ last.op = "flatten"
    /\ IsExampleTree
    /\ opened = {<<0>>, <<1, 1>>}
    /\ UselessOpened(nodes, items, opened) = opened
    /\ Len(flat) = 3

-----------------------------------------------------------------------------
(* Properties of the navigation state machine.  They speak of the last     *)
(* call: last.op with last.arg on last.items, from the state last.pre.     *)

\* The visible list the last call saw, and the one a call would see now.
VisibleBefore == flatten(nodes, last.pre.opened, last.items)
VisibleNow == flatten(nodes, opened, last.items)

\* The place of an identifier in a flattened list, from 1 (0: not listed).
PlaceOf(visible, id) ==
    IF id \in IdentifierSet(visible)
    THEN CHOOSE i \in 1..Len(visible) : visible[i].identifier = id
    ELSE 0

(* C3: open([]) returns false and changes nothing, and after any sequence  *)
(* of operations the empty identifier is not in the open set (toggle,      *)
(* toggle_selected and key_right with the empty selection included).       *)
C3_RootNeverOpen ==
    /\ <<>> \notin opened
    /\ last.op = "open" /\ last.arg = <<>> =>
          ~last.ret /\ opened = last.pre.opened
    /\ last.op \in {"toggle_selected", "key_right"} /\ last.pre.selected = <<>> =>
          opened = last.pre.opened

\* open([]) has been called on a state with open items.
C3_Witness ==
    /\ last.op = "open"
    /\ last.arg = <<>>
    /\ last.pre.opened # {}
    /\ ~last.ret

(* C4: open(x) for a non-empty x returns true iff x was not in the open    *)
(* set, and afterwards x is in it; close(x) returns true iff x was in the  *)
(* open set, and afterwards x is not.  open on an open x and close on a    *)
(* closed x return false and leave the open set as it was.                 *)
C4_OpenCloseReturn ==
    /\ last.op = "open" /\ last.arg # <<>> =>
          /\ last.ret <=> last.arg \notin last.pre.opened
          /\ last.arg \in opened
          /\ opened = last.pre.opened \cup {last.arg}
          /\ last.arg \in last.pre.opened => ~last.ret /\ opened = last.pre.opened
    /\ last.op = "close" =>
          /\ last.ret <=> last.arg \in last.pre.opened
          /\ last.arg \notin opened
          /\ opened = last.pre.opened \ {last.arg}
          /\ last.arg \notin last.pre.opened => ~last.ret /\ opened = last.pre.opened

\* close has been called on an identifier that was not open, among others
\* that were.
C4_Witness ==
    /\ last.op = "close"
    /\ last.arg \notin last.pre.opened
    /\ last.pre.opened # {}
    /\ ~last.ret

(* C5: when the visible list is not empty, after key_up or key_down the    *)
(* selection is the identifier of an entry of the visible list; key_up     *)
(* from the first entry stays on the first entry (and would again),        *)
(* key_down from the last entry stays on the last; otherwise key_up from   *)
(* the entry at index i selects the entry at i - 1 and key_down the entry  *)
(* at i + 1.                                                               *)
C5_NavigationClamping ==
    last.op \in {"key_up", "key_down"} /\ Len(VisibleBefore) > 0 =>
        LET visible == VisibleBefore
            n == Len(visible)
            i == PlaceOf(visible, last.pre.selected)
        IN /\ VisibleNow = visible
           /\ selected \in IdentifierSet(visible)
           /\ last.op = "key_up" /\ i = 1 =>
                 /\ selected = visible[1].identifier
                 /\ key_up(nodes, last.items, State).selected = selected
           /\ last.op = "key_down" /\ i = n =>
                 /\ selected = visible[n].identifier
                 /\ key_down(nodes, last.items, State).selected = selected
           /\ last.op = "key_up" /\ i > 1 => selected = visible[i - 1].identifier
           /\ last.op = "key_down" /\ i >= 1 /\ i < n =>
                 selected = visible[i + 1].identifier

\* key_down has been called with the last of several visible entries selected.
C5_Witness ==
    /\ last.op = "key_down"
    /\ Len(VisibleBefore) >= 3
    /\ last.pre.selected = VisibleBefore[Len(VisibleBefore)].identifier
    /\ selected = last.pre.selected

(* C6: when the selection is not in the visible list (no selection, an     *)
(* item hidden under a closed ancestor, an identifier of no item) and the  *)
(* list has a first entry, key_up and key_down both select it: the entry   *)
(* at index 0, whose identifier is [0].  key_down does not go to the last  *)
(* entry, and neither leaves the selection in place.                       *)
C6_StaleSelectionFallback ==
    /\ last.op \in {"key_up", "key_down"}
    /\ last.pre.selected \notin IdentifierSet(VisibleBefore)
    /\ Len(VisibleBefore) > 0
    => /\ selected = VisibleBefore[1].identifier
       /\ selected = <<0>>
       /\ selected # last.pre.selected
       /\ Len(VisibleBefore) > 1 =>
             selected # VisibleBefore[Len(VisibleBefore)].identifier

\* key_up has been called with an item selected that is hidden under a
\* closed ancestor, while several entries are visible.
C6_Witness ==
    /\ last.op = "key_up"
    /\ AddressesItem(nodes, last.items, last.pre.selected)
    /\ last.pre.selected \notin IdentifierSet(VisibleBefore)
    /\ Len(VisibleBefore) > 1
    /\ selected = <<0>>

(* C7: no operation of the navigation state hits an index out of range or  *)
(* an unsigned underflow, in any state and on any tree, the empty tree     *)
(* included (visible.len() - 1 is evaluated only for a non-empty list);    *)
(* on the empty tree key_up, key_down and select_last leave no selection.  *)
C7_NoFatalError ==
    /\ ~panicked
    /\ last.op \in {"key_up", "key_down", "select_last"} /\ last.items = <<>> =>
          selected = <<>>
    /\ \A its \in ItemsArguments :
          /\ ~key_up(nodes, its, State).panicked
          /\ ~key_down(nodes, its, State).panicked

\* key_up has been called on the empty tree with a selection and open items
\* left from a tree that had items.
C7_Witness ==
    /\ last.op = "key_up"
    /\ last.items = <<>>
    /\ last.pre.selected # <<>>
    /\ last.pre.opened # {}
    /\ last.pre.offset > 0
    /\ selected = <<>>
    /\ ~panicked

\* The operations the input dispatcher calls on a key.
NavigationOps ==
    {"key_up", "key_down", "key_left", "key_right", "select_first",
     "select_last", "toggle_selected"}

(* C8 as claimed: whenever key_up, key_down, key_left, key_right,          *)
(* select_first, select_last or toggle_selected is called while the        *)
(* selection is not in the visible list, then when the call returns the    *)
(* selection is empty or the identifier of an entry of the visible list.   *)
C8_Claimed ==
    /\ last.op \in NavigationOps
    /\ last.pre.selected # <<>>
    /\ last.pre.selected \notin IdentifierSet(VisibleBefore)
    => selected = <<>> \/ selected \in IdentifierSet(VisibleNow)

(* C8, amended: whenever key_up, key_down or select_last is called while   *)
(* the selection is not in the visible list, then when the call returns    *)
(* the selection is empty or the identifier of an entry of the visible     *)
(* list; so it is after select_first when the tree has a root.             *)
C8_InvalidSelectionResolved ==
    /\ /\ last.op \in {"key_up", "key_down", "select_last"}
       /\ last.pre.selected # <<>>
       /\ last.pre.selected \notin IdentifierSet(VisibleBefore)
       => selected = <<>> \/ selected \in IdentifierSet(VisibleNow)
    /\ /\ last.op = "select_first"
       /\ last.pre.selected # <<>>
       /\ last.pre.selected \notin IdentifierSet(VisibleBefore)
       /\ last.items # <<>>
       => selected \in IdentifierSet(VisibleNow)

\* key_down has been called with an identifier of no item selected.
C8_Witness ==
    /\ last.op = "key_down"
    /\ last.pre.selected # <<>>
    /\ ~AddressesItem(nodes, last.items, last.pre.selected)
    /\ selected \in IdentifierSet(VisibleNow)

\* The last root, followed through last children while the item reached is
\* open and has children (the empty identifier when there is no root).
RECURSIVE DeepestLastOpen(_, _, _, _)
DeepestLastOpen(heap, opened_, items_, current) ==
    IF items_ = <<>> THEN current
    ELSE LET id == Append(current, Len(items_) - 1)
             children == heap[items_[Len(items_)]].children
         IN IF id \in opened_ /\ children # <<>>
            THEN DeepestLastOpen(heap, opened_, children, id)
            ELSE id

(* C9: select_last selects the identifier of the last entry of the         *)
(* flattened list: the last root, or, as long as the item reached is open  *)
(* and has children, its last child.  On the empty tree it selects the     *)
(* empty identifier, which resets the scroll offset to 0.                  *)
C9_SelectLast ==
    last.op = "select_last" =>
        /\ opened = last.pre.opened
        /\ Len(VisibleNow) > 0 => selected = VisibleNow[Len(VisibleNow)].identifier
        /\ selected = DeepestLastOpen(nodes, opened, last.items, <<>>)
        /\ last.items = <<>> => selected = <<>> /\ offset = 0
        /\ last.items # <<>> => selected # <<>> /\ offset = last.pre.offset

\* select_last has selected a grandchild of the last root.
C9_Witness ==
    /\ last.op = "select_last"
    /\ Len(selected) >= 3
    /\ last.pre.selected # selected

\* select_last has been called on the empty tree with a scroll offset left
\* from a tree that had items.
C9_EmptyTreeReached ==
    /\ last.op = "select_last"
    /\ last.items = <<>>
    /\ last.pre.offset > 0
    /\ offset = 0

-----------------------------------------------------------------------------
(* Properties of the word-wrap composer.                                   *)

\* The symbols of the logical lines the composer was given.
SymbolsOf(line) == {line[i] : i \in 1..Len(line)}
InputSymbols == UNION {SymbolsOf(input[k].symbols) : k \in 1..Len(input)}

(* C10: for any input of symbols of width 1 and more, in any mix of words  *)
(* and whitespace, with trim on or off, and any max_line_width > 0, every  *)
(* line the word-wrap composer returns has a summed width of at most       *)
(* max_line_width, and no symbol wider than max_line_width is in it.       *)
C10_WordWrapWidthBound ==
    /\ composer.max_line_width > 0
    /\ \A symbol \in InputSymbols : width(symbol) >= 1
    /\ result.some
    => /\ line_width_of(result.line) <= composer.max_line_width
       /\ result.width = line_width_of(result.line)
       /\ \A i \in 1..Len(result.line) :
             width(result.line[i]) <= composer.max_line_width

-----------------------------------------------------------------------------
(* Notions of the composers' properties.                                   *)

\* The line without its leading whitespace (a no-break space is no
\* whitespace here).
RECURSIVE WithoutLeadingWhitespace(_)
WithoutLeadingWhitespace(line) ==
    IF line # <<>> /\ symbol_whitespace_of(Head(line))
    THEN WithoutLeadingWhitespace(Tail(line))
    ELSE line

\* Every logical line of the input is at most max_line_width wide.
AllLinesShort ==
    \A k \in 1..Len(input) :
        line_width_of(input[k].symbols) <= composer.max_line_width

\* All next_line calls that return a line have been made.
Exhausted == pulls > 0 /\ ~result.some

\* The lines returned so far, without widths and alignments.
EmittedLines == [k \in 1..Len(emitted) |-> emitted[k].line]

OnlyWhitespace(line) == \A i \in 1..Len(line) : symbol_whitespace_of(line[i])

\* The logical line is narrower than max_line_width, or as wide and without
\* symbols of no width.
FitsPlainly(line) ==
    \/ line_width_of(line) < composer.max_line_width
    \/ /\ line_width_of(line) = composer.max_line_width
       /\ \A symbol \in SymbolsOf(line) : width(symbol) >= 1

ResultSource == input[Len(input) - Len(composer.input_lines)]

\* The symbols of the line that are not wider than max_line_width: those
\* the truncating composer does not pass over.
RECURSIVE Fitting(_, _)
Fitting(line, max_line_width) ==
    IF line = <<>> THEN <<>>
    ELSE IF width(Head(line)) > max_line_width
    THEN Fitting(Tail(line), max_line_width)
    ELSE <<Head(line)>> \o Fitting(Tail(line), max_line_width)

(* C12: for any input, any horizontal offset and any max_line_width > 0,   *)
(* a line the truncating composer returns is at most max_line_width wide;  *)
(* it is made of the first symbols of the logical line that are not wider  *)
(* than max_line_width, each shown or blanked by the offset, every one of  *)
(* them fitting when it was added, and it ends before the first symbol     *)
(* that would make it wider than max_line_width: nothing after that symbol *)
(* is in the line.                                                         *)
C12_TruncateBound ==
    /\ composer.kind = "LineTruncator"
    /\ composer.max_line_width > 0
    /\ result.some
    => LET max_line_width == composer.max_line_width
           fitting == Fitting(ResultSource.symbols, max_line_width)
           line == result.line
       IN /\ line_width_of(line) <= max_line_width
          /\ result.width = line_width_of(line)
          /\ Len(line) <= Len(fitting)
          /\ \A i \in 1..Len(line) :
                /\ line[i] \in {fitting[i], ""}
                /\ line_width_of(SubSeq(line, 1, i - 1)) + width(fitting[i])
                      <= max_line_width
          /\ Len(line) < Len(fitting) =>
                line_width_of(line) + width(fitting[Len(line) + 1])
                    > max_line_width

\* A logical line has been cut: a symbol that fits max_line_width on its
\* own, and symbols after it, are not in the line returned, which holds a
\* symbol blanked by the horizontal offset.
C12_Witness ==
    /\ composer.kind = "LineTruncator"
    /\ composer.max_line_width > 0
    /\ result.some
    /\ Len(result.line) + 2
          <= Len(Fitting(ResultSource.symbols, composer.max_line_width))
    /\ \E i \in 1..Len(result.line) :
          result.line[i] = "" /\ ResultSource.symbols[i] # ""
    /\ line_width_of(result.line) > 0

-----------------------------------------------------------------------------
(* Notions of the scroll window's properties.                              *)

\* The heights of the entries of the visible list render was called on,
\* the index of the selected entry in it, and the height of the area.
WindowHeights == heights_of(nodes, VisibleBefore)
WindowSelectedIndex == render_selected_index(VisibleBefore, last.pre.selected)
AvailableHeight == last.arg[2]

\* render has adjusted the scroll window.
WindowAdjusted == last.op = "render" /\ last.ret.ran

\* The summed height of the entries [start, end) of h.
RECURSIVE SummedHeight(_, _, _)
SummedHeight(h, start, end) ==
    IF start >= end THEN 0 ELSE h[start + 1] + SummedHeight(h, start + 1, end)

(* C13: for every non-empty visible list, all heights of its entries (an   *)
(* entry taller than the area included), every available height >= 1,      *)
(* every scroll offset left before and every selection, render ends its    *)
(* scroll adjustment with start <= selected_index < end, and start is the  *)
(* scroll offset it stores.                                                *)
C13_SelectionInWindow ==
    WindowAdjusted =>
        /\ ~panicked
        /\ offset = last.ret.start
        /\ last.ret.start <= WindowSelectedIndex
        /\ WindowSelectedIndex < last.ret.end

(* C14: after the scroll adjustment the summed height of the entries in    *)
(* [start, end) is at most the available height, unless the selected entry *)
(* alone is taller than the available height, and then that entry is in    *)
(* the window all the same.                                                *)
C14_HeightBudget ==
    WindowAdjusted =>
        LET h == WindowHeights
            tall == h[WindowSelectedIndex + 1] > AvailableHeight
        IN /\ ~tall =>
                 SummedHeight(h, last.ret.start, last.ret.end) <= AvailableHeight
           /\ tall =>
                 /\ last.ret.start <= WindowSelectedIndex
                 /\ WindowSelectedIndex < last.ret.end

-----------------------------------------------------------------------------
(* Both composers.                                                         *)

\* The composer as it was constructed on the input.
Constructed ==
    IF composer.kind = "WordWrapper"
    THEN WordWrapper_new(input, composer.max_line_width, composer.trim)
    ELSE set_horizontal_offset(LineTruncator_new(input, composer.max_line_width),
                               composer.horizontal_offset)

(* C15: with max_line_width = 0 a composer of either kind returns no line  *)
(* on the first next_line call and on every later one, whatever the input; *)
(* it takes no logical line from its input and is left as constructed.     *)
C15_ZeroWidthNoLine ==
    composer.max_line_width = 0 =>
        /\ result = NoLine
        /\ emitted = <<>>
        /\ composer.input_lines = input
        /\ composer = Constructed

\* next_line has been called more than once on a truncating composer of
\* width 0 that was given two logical lines.
C15_Witness ==
    /\ composer.kind = "LineTruncator"
    /\ composer.max_line_width = 0
    /\ Len(input) = 2
    /\ pulls >= 2

\* next_line has been called more than once on a word-wrap composer of
\* width 0 that was given two logical lines.
C15_WordWrapperReached ==
    /\ composer.kind = "WordWrapper"
    /\ composer.max_line_width = 0
    /\ Len(input) = 2
    /\ pulls >= 2

-----------------------------------------------------------------------------
(* The lines of a logical line.                                            *)

\* The lines returned so far that carry the alignment of the k-th logical
\* line (the logical lines of an input have different alignments).
RECURSIVE LinesAligned(_, _)
LinesAligned(lines, alignment) ==
    IF lines = <<>> THEN <<>>
    ELSE IF Head(lines).alignment = alignment
    THEN <<Head(lines).line>> \o LinesAligned(Tail(lines), alignment)
    ELSE LinesAligned(Tail(lines), alignment)

LinesOfLogical(k) == LinesAligned(emitted, input[k].alignment)

\* The lines come in the order of their logical lines: none of an earlier
\* logical line follows one of a later logical line.
InLogicalOrder ==
    \A i, j \in 1..Len(emitted) :
        i < j =>
            \A k, l \in 1..Len(input) :
                /\ emitted[i].alignment = input[k].alignment
                /\ emitted[j].alignment = input[l].alignment
                => k <= l

\* Every symbol of the line is wider than max_line_width.
OnlyTooWide(line) ==
    \A i \in 1..Len(line) : width(line[i]) > composer.max_line_width

(* C16 as claimed: with max_line_width > 0 every logical line gives at     *)
(* least one line; an empty logical line, one of whitespace only and one   *)
(* of symbols wider than max_line_width only give exactly one line, which  *)
(* is empty; and the lines come in the order of their logical lines.       *)
C16_Claimed ==
    /\ composer.kind = "WordWrapper"
    /\ composer.max_line_width > 0
    /\ Exhausted
    => /\ InLogicalOrder
       /\ \A k \in 1..Len(input) :
             /\ Len(LinesOfLogical(k)) >= 1
             /\ \/ OnlyWhitespace(input[k].symbols)
                \/ OnlyTooWide(input[k].symbols)
                => LinesOfLogical(k) = <<(<<>>)>>

(* C16, amended: with max_line_width > 0 every logical line gives at least *)
(* one line; an empty logical line, one of symbols wider than              *)
(* max_line_width only, and one of whitespace only that is at most         *)
(* max_line_width wide or is wrapped with trim on, give exactly one line,  *)
(* which is empty; and the lines come in the order of their logical lines. *)
C16_EveryLogicalLineGivesALine ==
    /\ composer.kind = "WordWrapper"
    /\ composer.max_line_width > 0
    /\ Exhausted
    => /\ InLogicalOrder
       /\ \A k \in 1..Len(input) :
             /\ Len(LinesOfLogical(k)) >= 1
             /\ \/ /\ OnlyWhitespace(input[k].symbols)
                   /\ \/ composer.trim
                      \/ line_width_of(input[k].symbols)
                            <= composer.max_line_width
                \/ OnlyTooWide(input[k].symbols)
                => LinesOfLogical(k) = <<(<<>>)>>

\* Two logical lines have been wrapped to the end: the first, of
\* whitespace only, gave one empty line, and the second gave two lines
\* after it.
C16_Witness ==
    /\ composer.kind = "WordWrapper"
    /\ composer.max_line_width > 0
    /\ Exhausted
    /\ Len(input) = 2
    /\ input[1].symbols # <<>>
    /\ OnlyWhitespace(input[1].symbols)
    /\ LinesOfLogical(1) = <<(<<>>)>>
    /\ Len(LinesOfLogical(2)) = 2
    /\ Len(emitted) = 3

-----------------------------------------------------------------------------
(* The truncating composer, line by line.                                  *)

(* C17: with max_line_width > 0 the truncating composer returns exactly    *)
(* one line for each logical line, in their order, and no line exactly     *)
(* when the logical lines are used up: on n logical lines the first n      *)
(* next_line calls return a line, the k-th made of the k-th logical line   *)
(* and with its alignment, and every later call returns no line.           *)
C17_OneLinePerLogicalLine ==
    /\ composer.kind = "LineTruncator"
    /\ composer.max_line_width > 0
    => /\ Len(emitted) = min(pulls, Len(input))
       /\ pulls > 0 => (result.some <=> pulls <= Len(input))
       /\ composer.input_lines
             = SubSeq(input, Len(emitted) + 1, Len(input))
       /\ result.some => result = emitted[Len(emitted)]
       /\ \A k \in 1..Len(emitted) :
             LET fitting == Fitting(input[k].symbols, composer.max_line_width)
                 line == emitted[k].line
             IN /\ emitted[k].alignment = input[k].alignment
                /\ Len(line) <= Len(fitting)
                /\ \A i \in 1..Len(line) : line[i] \in {fitting[i], ""}

\* Two logical lines, the first of them empty, have given two lines, and
\* the two next_line calls after them have returned no line.
C17_Witness ==
    /\ composer.kind = "LineTruncator"
    /\ composer.max_line_width > 0
    /\ Len(input) = 2
    /\ input[1].symbols = <<>>
    /\ input[2].symbols # <<>>
    /\ pulls = 4
    /\ ~result.some
    /\ Len(emitted) = 2
    /\ emitted[1].line = <<>>
    /\ emitted[2].line # <<>>

-----------------------------------------------------------------------------
(* key_left, key_right, toggle_selected.                                   *)

\* The identifier without its last element (the empty identifier stays).
WithoutLast(id) == SubSeq(id, 1, Len(id) - 1)

\* The state before the last operation.
PreState == [offset |-> last.pre.offset, opened |-> last.pre.opened,
             selected |-> last.pre.selected, panicked |-> FALSE]

(* C18: key_left takes a selected identifier that is in the open set out   *)
(* of the open set and leaves the selection (and the scroll offset) as it  *)
(* is; otherwise it leaves the open set as it is and selects the selected  *)
(* identifier without its last element, which for a closed root is the     *)
(* empty identifier, and then the scroll offset is reset to 0.             *)
C18_KeyLeft ==
    last.op = "key_left" =>
        IF last.pre.selected \in last.pre.opened
        THEN /\ opened = last.pre.opened \ {last.pre.selected}
             /\ selected = last.pre.selected
             /\ offset = last.pre.offset
        ELSE /\ opened = last.pre.opened
             /\ selected = WithoutLast(last.pre.selected)
             /\ Len(last.pre.selected) = 1 => selected = <<>> /\ offset = 0
             /\ selected # <<>> => offset = last.pre.offset

\* key_left has been called on a closed root with the view scrolled down:
\* nothing is selected now and the scroll offset is 0.
C18_Witness ==
    /\ last.op = "key_left"
    /\ Len(last.pre.selected) = 1
    /\ last.pre.selected \notin last.pre.opened
    /\ last.pre.opened # {}
    /\ last.pre.offset > 0
    /\ selected = <<>>
    /\ offset = 0

\* key_left has been called on an open child: it is closed and still
\* selected.
C18_ClosedInPlace ==
    /\ last.op = "key_left"
    /\ Len(last.pre.selected) = 2
    /\ last.pre.selected \in last.pre.opened
    /\ last.pre.selected \notin opened
    /\ selected = last.pre.selected

(* C19: key_right puts the selected identifier into the open set (nothing  *)
(* when nothing is selected) and changes neither the selection nor the     *)
(* scroll offset; when the selected item is a leaf, flatten gives the same *)
(* visible list before and after the call.                                 *)
C19_KeyRight ==
    last.op = "key_right" =>
        /\ selected = last.pre.selected
        /\ offset = last.pre.offset
        /\ opened = IF last.pre.selected = <<>> THEN last.pre.opened
                    ELSE last.pre.opened \cup {last.pre.selected}
        /\ /\ AddressesItem(nodes, items, selected)
           /\ nodes[ItemAt(nodes, items, selected)].children = <<>>
           => VisibleNow = VisibleBefore

\* key_right has been called on a visible leaf below an open root: the leaf
\* is in the open set now and the visible list is as before.
C19_Witness ==
    /\ last.op = "key_right"
    /\ Len(selected) = 2
    /\ AddressesItem(nodes, items, selected)
    /\ nodes[ItemAt(nodes, items, selected)].children = <<>>
    /\ selected \in IdentifierSet(VisibleBefore)
    /\ selected \notin last.pre.opened
    /\ selected \in opened
    /\ VisibleNow = VisibleBefore

(* C20: toggle_selected does what toggle does on the selection: a          *)
(* selection that is in the open set is taken out of it, one that is not   *)
(* is put into it, and with nothing selected nothing changes; the          *)
(* selection and the scroll offset stay.  Two toggle_selected calls in a   *)
(* row on a selection give back the open set of before the first.          *)
C20_ToggleSelected ==
    /\ [](last.op = "toggle_selected" =>
            /\ selected = last.pre.selected
            /\ offset = last.pre.offset
            /\ opened = IF last.pre.selected \in last.pre.opened
                        THEN last.pre.opened \ {last.pre.selected}
                        ELSE IF last.pre.selected = <<>> THEN last.pre.opened
                        ELSE last.pre.opened \cup {last.pre.selected}
            /\ State = toggle(PreState, last.pre.selected))
    /\ [][/\ last.op = "toggle_selected"
          /\ last'.op = "toggle_selected"
          /\ selected # <<>>
          => opened' = last.pre.opened]_vars

\* toggle_selected has been called on a selected child that was in the
\* open set with another identifier: the child has been taken out of it.
C20_Witness ==
    /\ last.op = "toggle_selected"
    /\ Len(selected) = 2
    /\ selected \in last.pre.opened
    /\ selected \notin opened
    /\ Cardinality(opened) >= 1

-----------------------------------------------------------------------------
(* close_all, select.                                                      *)

\* The identifiers of the roots, in order.
RootIdentifiers == [r \in 1..Len(items) |-> <<r - 1>>]

(* C21: close_all empties the open set and leaves the selection and the    *)
(* scroll offset as they are, also when the selection is hidden by it;     *)
(* after it the visible list is the roots, in their order.                 *)
C21_CloseAll ==
    last.op = "close_all" =>
        /\ opened = {}
        /\ selected = last.pre.selected
        /\ offset = last.pre.offset
        /\ IdentifiersOf(VisibleNow) = RootIdentifiers
        /\ \A r \in 1..Len(items) : VisibleNow[r].item = items[r]

\* close_all has hidden the selected entry, a grandchild that was visible,
\* and the view was scrolled.
C21_Witness ==
    /\ last.op = "close_all"
    /\ Len(selected) = 3
    /\ selected \in IdentifierSet(VisibleBefore)
    /\ selected \notin IdentifierSet(VisibleNow)
    /\ offset > 0

(* C22: select makes the given identifier the selection, visible or not,   *)
(* addressing an item or not; it resets the scroll offset to 0 when that   *)
(* identifier is empty and leaves it as it is otherwise; the open set is   *)
(* left as it is.                                                          *)
C22_Select ==
    last.op = "select" =>
        /\ selected = last.arg
        /\ opened = last.pre.opened
        /\ last.arg = <<>> => offset = 0
        /\ last.arg # <<>> => offset = last.pre.offset

\* select has been called, with the view scrolled, on an identifier that
\* addresses no item.
C22_Witness ==
    /\ last.op = "select"
    /\ ~AddressesItem(nodes, items, last.arg)
    /\ last.arg # <<>>
    /\ selected = last.arg
    /\ last.pre.selected # last.arg
    /\ offset > 0

\* select has been called, with the view scrolled, on the identifier of a
\* hidden item.
C22_HiddenSelected ==
    /\ last.op = "select"
    /\ AddressesItem(nodes, items, selected)
    /\ selected \notin IdentifierSet(VisibleNow)
    /\ offset > 0

\* select has been called, with the view scrolled, on the empty identifier.
C22_EmptySelected ==
    /\ last.op = "select"
    /\ last.arg = <<>>
    /\ last.pre.offset > 0
    /\ last.pre.selected # <<>>

-----------------------------------------------------------------------------
(* What the operations leave alone.                                        *)

(* C23: key_up, key_down, select_first, select_last and select leave the   *)
(* open set as it is; open, close, toggle, toggle_selected, close_all and  *)
(* key_right leave the selection and the scroll offset as they are; a      *)
(* key_left call never changes both the open set and the selection (and    *)
(* changes one of them when something is selected); flatten leaves the     *)
(* open set, the selection and the scroll offset as they are.              *)
C23_FrameEffects ==
    /\ last.op \in {"key_up", "key_down", "select_first", "select_last", "select"}
          => opened = last.pre.opened
    /\ last.op \in {"open", "close", "toggle", "toggle_selected", "close_all",
                    "key_right"}
          => selected = last.pre.selected /\ offset = last.pre.offset
    /\ last.op = "key_left" =>
          /\ ~(opened # last.pre.opened /\ selected # last.pre.selected)
          /\ last.pre.selected # <<>> =>
                opened # last.pre.opened \/ selected # last.pre.selected
    /\ last.op = "flatten" =>
          /\ opened = last.pre.opened
          /\ selected = last.pre.selected
          /\ offset = last.pre.offset

\* toggle has opened an identifier other than the selected one, with the
\* view scrolled: the selection and the scroll offset are as before.
C23_Witness ==
    /\ last.op = "toggle"
    /\ last.arg # selected
    /\ last.arg \in opened
    /\ last.arg \notin last.pre.opened
    /\ selected # <<>>
    /\ offset > 0

\* flatten has been called with items open, one selected and the view
\* scrolled, and has returned more than the roots.
C23_FlattenReached ==
    /\ last.op = "flatten"
    /\ opened # {}
    /\ selected # <<>>
    /\ offset > 0
    /\ Len(last.ret) > Len(items)

-----------------------------------------------------------------------------
(* Into a child and back.                                                  *)

\* The item the identifier addresses has at least one child.
HasChildren(id) ==
    /\ AddressesItem(nodes, items, id)
    /\ nodes[ItemAt(nodes, items, id)].children # <<>>

(* C24: when the selected entry is visible and its item has a child,       *)
(* key_right followed by key_down (on the same tree) selects its first     *)
(* child, the selection with 0 appended; and key_up from a visible first   *)
(* child (an identifier of two or more elements that ends in 0) selects    *)
(* its parent.                                                             *)
C24_IntoChildAndBack ==
    /\ [][/\ last.op = "key_right"
          /\ selected \in IdentifierSet(flatten(nodes, opened, items))
          /\ HasChildren(selected)
          /\ last'.op = "key_down"
          /\ last'.items = items
          => selected' = Append(selected, 0)]_vars
    /\ [](/\ last.op = "key_up"
          /\ last.pre.selected \in IdentifierSet(VisibleBefore)
          /\ Len(last.pre.selected) >= 2
          /\ last.pre.selected[Len(last.pre.selected)] = 0
          => selected = WithoutLast(last.pre.selected))

\* key_down has moved from an open root to its first child, which is not the
\* last entry of the visible list.
C24_Witness ==
    /\ last.op = "key_down"
    /\ last.items = items
    /\ Len(last.pre.selected) = 1
    /\ last.pre.selected \in last.pre.opened
    /\ selected = Append(last.pre.selected, 0)
    /\ PlaceOf(VisibleNow, selected) < Len(VisibleNow)

\* key_up has moved from a visible first grandchild to its parent.
C24_ParentReached ==
    /\ last.op = "key_up"
    /\ Len(last.pre.selected) = 3
    /\ last.pre.selected \in IdentifierSet(VisibleBefore)
    /\ last.pre.selected[3] = 0
    /\ selected = WithoutLast(last.pre.selected)

-----------------------------------------------------------------------------
(* Rows of calls of one key.                                               *)

\* The visible list at the start of the row of calls.
RunVisible == flatten(nodes, last.pre.opened, items)

(* C25: from any state with n > 0 visible entries, n key_down calls in a   *)
(* row leave the selection on the last visible entry, the one select_last  *)
(* would select, and every further key_down keeps it there; n key_up calls *)
(* in a row leave it on the first visible entry, and every further key_up  *)
(* keeps it there.                                                         *)
C25_RunToTheEnd ==
    /\ Len(RunVisible) > 0
    /\ last.ret >= Len(RunVisible)
    => /\ last.op = "key_down" =>
             /\ selected = RunVisible[Len(RunVisible)].identifier
             /\ selected = select_last(nodes, items, State).selected
       /\ last.op = "key_up" => selected = RunVisible[1].identifier
       /\ last.op \in {"key_down", "key_up"} =>
             opened = last.pre.opened /\ ~panicked

\* Three visible entries, the first of them selected: three key_down calls
\* in a row and more have left the last of them selected.
C25_Witness ==
    /\ last.op = "key_down"
    /\ Len(RunVisible) = 3
    /\ last.pre.selected = RunVisible[1].identifier
    /\ last.ret > 3
    /\ selected = RunVisible[3].identifier

\* Three visible entries and a selection that is none of them: three
\* key_up calls in a row have left the first of them selected.
C25_UpReached ==
    /\ last.op = "key_up"
    /\ Len(RunVisible) = 3
    /\ last.pre.selected \notin IdentifierSet(RunVisible)
    /\ last.pre.selected # <<>>
    /\ last.ret = 3
    /\ selected = RunVisible[1].identifier

(* C26: from any state, key_left calls in a row reach the empty selection  *)
(* after at most twice as many calls as the selection has elements: each   *)
(* call on a selection either takes the selected identifier out of the     *)
(* open set or drops the last element of the selection.  Once a call has   *)
(* left nothing selected the scroll offset is 0 and a further key_left     *)
(* changes nothing.                                                        *)
C26_KeyLeftReachesEmpty ==
    /\ [](last.op = "key_left" =>
            /\ last.ret >= 2 * Len(last.pre.selected) => selected = <<>>
            /\ selected = <<>> => offset = 0
            /\ ~panicked)
    /\ [][last'.op = "key_left" /\ selected # <<>> =>
             \/ /\ selected \in opened
                /\ opened' = opened \ {selected}
                /\ selected' = selected
             \/ /\ selected \notin opened
                /\ opened' = opened
                /\ selected' = WithoutLast(selected)]_vars
    /\ [][last.op = "key_left" /\ last'.op = "key_left" /\ selected = <<>> =>
             /\ opened' = opened
             /\ selected' = selected
             /\ offset' = offset]_vars

\* A grandchild was selected, it and the items above it open and the view
\* scrolled: the sixth key_left call in a row has left nothing open,
\* nothing selected and the scroll offset 0.
C26_Witness ==
    /\ last.op = "key_left"
    /\ Len(last.pre.selected) = 3
    /\ last.ret = 6
    /\ Cardinality(last.pre.opened) = 3
    /\ opened = {}
    /\ selected = <<>>
    /\ last.pre.offset > 0
    /\ offset = 0

-----------------------------------------------------------------------------
(* key_left and the visible list.                                          *)

(* C27: when the selection is an entry of the visible list before a        *)
(* key_left call, then after the call it is an entry of the visible list   *)
(* as it is then, or nothing is selected.                                  *)
C27_KeyLeftKeepsVisible ==
    /\ last.op = "key_left"
    /\ last.pre.selected \in IdentifierSet(VisibleBefore)
    => \/ selected = <<>>
       \/ selected \in IdentifierSet(VisibleNow)

\* key_left has moved from a visible closed grandchild to its parent, which
\* is visible.
C27_Witness ==
    /\ last.op = "key_left"
    /\ Len(last.pre.selected) = 3
    /\ last.pre.selected \in IdentifierSet(VisibleBefore)
    /\ selected = WithoutLast(last.pre.selected)
    /\ selected \in IdentifierSet(VisibleNow)

\* key_left has closed a visible open child with a child of its own: it is
\* still visible, and its child is not any more.
C27_ClosedStaysVisible ==
    /\ last.op = "key_left"
    /\ Len(selected) = 2
    /\ selected \in last.pre.opened
    /\ selected \in IdentifierSet(VisibleNow)
    /\ Len(VisibleNow) < Len(VisibleBefore)

-----------------------------------------------------------------------------
(* The entries of a flattened list.                                        *)

(* C28: in every list flatten returns the identifiers are non-empty and    *)
(* pairwise distinct, the depth of an entry is the length of its           *)
(* identifier less one (0 for a root, never below 0), and an entry of      *)
(* depth 1 or more comes after the entry of its parent identifier.         *)
C28_FlattenEntries ==
    last.op = "flatten" =>
        \A i \in 1..Len(flat) :
            /\ flat[i].identifier # <<>>
            /\ \A j \in 1..Len(flat) :
                  flat[i].identifier = flat[j].identifier => i = j
            /\ Flattened_depth(flat[i]) = Len(flat[i].identifier) - 1
            /\ Flattened_depth(flat[i]) >= 0
            /\ Len(flat[i].identifier) = 1 => Flattened_depth(flat[i]) = 0
            /\ Flattened_depth(flat[i]) >= 1 =>
                  \E j \in 1..(i - 1) :
                      flat[j].identifier = WithoutLast(flat[i].identifier)

\* flatten has listed entries of the depths 0, 1 and 2 and a second root.
C28_Witness ==
    /\ last.op = "flatten"
    /\ \E i, j, k, l \in 1..Len(flat) :
          /\ Flattened_depth(flat[i]) = 0
          /\ Flattened_depth(flat[j]) = 1
          /\ Flattened_depth(flat[k]) = 2
          /\ flat[l].identifier = <<1>>

-----------------------------------------------------------------------------
(* Where the scroll window is put.                                         *)

\* The end of the window that starts at entry k and is extended forward
\* while the next entry fits in what is left of the available height.
RECURSIVE GreedyEnd(_, _, _)
GreedyEnd(h, k, left) ==
    IF k >= Len(h) THEN k
    ELSE IF h[k + 1] > left THEN k
    ELSE GreedyEnd(h, k + 1, left - h[k + 1])

\* The scroll offset render was called with.
PreviousOffset == last.pre.offset

\* The selected entry is no taller than the area.
SelectedFits == WindowHeights[WindowSelectedIndex + 1] <= AvailableHeight

\* The least start from `from` on for which the entries up to the selected
\* one fit in the available height.
LeastStart(from) ==
    CHOOSE s \in from..WindowSelectedIndex :
        /\ SummedHeight(WindowHeights, s, WindowSelectedIndex + 1)
              <= AvailableHeight
        /\ \A t \in from..(s - 1) :
              SummedHeight(WindowHeights, t, WindowSelectedIndex + 1)
                  > AvailableHeight

(* C29: when the selected index is below the scroll offset render was      *)
(* called with, the new start is the selected index; when the selected     *)
(* index is at or after the end of the window filled greedily from the     *)
(* start and the selected entry is no taller than the area, the adjustment *)
(* ends with end = selected_index + 1 and with the least start from the    *)
(* old one on for which the entries from start to the selected one fit in  *)
(* the available height.                                                   *)
C29_WindowPlacement ==
    WindowAdjusted =>
        /\ WindowSelectedIndex < PreviousOffset =>
              last.ret.start = WindowSelectedIndex
        /\ /\ WindowSelectedIndex >= PreviousOffset
           /\ WindowSelectedIndex
                 >= GreedyEnd(WindowHeights, PreviousOffset, AvailableHeight)
           /\ SelectedFits
           => /\ last.ret.end = WindowSelectedIndex + 1
              /\ last.ret.start = LeastStart(PreviousOffset)

\* render returns before the scroll adjustment: the area has no width or
\* no height, or nothing is visible.
ReturnsEarly ==
    \/ last.arg[1] < 1
    \/ last.arg[2] < 1
    \/ Len(VisibleBefore) = 0

\* The selected entry lies in the window filled greedily from the scroll
\* offset render was called with.
SelectedInGreedyWindow ==
    /\ WindowSelectedIndex >= PreviousOffset
    /\ WindowSelectedIndex
          < GreedyEnd(WindowHeights, PreviousOffset, AvailableHeight)

(* C30: a render pass whose selected index is at or after the scroll       *)
(* offset it was called with, and inside the window filled greedily from   *)
(* that offset within the available height, leaves the scroll offset as it *)
(* was; and a render pass of an empty visible list, or into an area of no  *)
(* width or no height, returns without changing the scroll offset.         *)
C30_ScrollStability ==
    last.op = "render" =>
        /\ ReturnsEarly => ~last.ret.ran /\ offset = PreviousOffset
        /\ ~ReturnsEarly /\ SelectedInGreedyWindow =>
              last.ret.ran /\ offset = PreviousOffset

\* A render pass kept a scroll offset above 0 with the selected entry after
\* the offset and inside the greedy window.
C30_Witness ==
    /\ WindowAdjusted
    /\ SelectedInGreedyWindow
    /\ WindowSelectedIndex > PreviousOffset
    /\ PreviousOffset > 0
    /\ offset = PreviousOffset

\* A render pass of an empty tree returned with the scroll offset above 0.
C30_EmptyReached ==
    /\ last.op = "render"
    /\ Len(VisibleBefore) = 0
    /\ last.arg[1] >= 1 /\ last.arg[2] >= 1
    /\ offset > 0

\* A render pass into an area of no height returned with the scroll offset
\* above 0, where the adjustment would have moved it.
C30_ZeroAreaReached ==
    /\ last.op = "render"
    /\ last.arg[2] < 1
    /\ Len(VisibleBefore) > 0
    /\ WindowSelectedIndex < PreviousOffset
    /\ offset = PreviousOffset

-----------------------------------------------------------------------------
(* The steps of the scroll adjustment.                                     *)

\* The values the locals of the scroll adjustment took in the render call.
WindowSteps ==
    scroll_window_steps(WindowHeights, PreviousOffset, WindowSelectedIndex,
                        AvailableHeight)

(* C31: for every non-empty visible list, all heights of its entries (0    *)
(* and heights above the area's included), every available height >= 1,    *)
(* every previous offset (one beyond the list included) and every          *)
(* selection, at every step of the scroll adjustment of render             *)
(* 0 <= start <= end <= len(visible) holds, the tracked height is the sum  *)
(* of the heights of the entries in [start, end), and no visible[start] or *)
(* visible[end] is read out of range; the adjustment ends, with the        *)
(* window render goes on with.                                             *)
C31_WindowIndexSafe ==
    WindowAdjusted =>
        LET steps == WindowSteps
            final == steps[Len(steps)]
        IN /\ \A i \in 1..Len(steps) :
                 /\ ~steps[i].panic
                 /\ 0 <= steps[i].start
                 /\ steps[i].start <= steps[i].end
                 /\ steps[i].end <= Len(WindowHeights)
                 /\ steps[i].height
                       = SummedHeight(WindowHeights, steps[i].start, steps[i].end)
           /\ ~last.ret.panic
           /\ ~panicked
           /\ final.start = last.ret.start
           /\ final.end = last.ret.end
           /\ final.height = last.ret.height
           /\ offset = final.start

\* An adjustment that started from an offset beyond the list took entries
\* in at the end and evicted entries from the front, over a list with an
\* entry of height 0.
C31_Witness ==
    /\ WindowAdjusted
    /\ PreviousOffset > Len(WindowHeights)
    /\ \E i \in 1..Len(WindowHeights) : WindowHeights[i] = 0
    /\ \E i \in 1..Len(WindowSteps) :
          /\ WindowSteps[i].height > AvailableHeight
          /\ WindowSteps[i].start < last.ret.start

\* An adjustment evicted an entry taller than the area.
C31_TallEvicted ==
    /\ WindowAdjusted
    /\ last.ret.start > 0
    /\ WindowHeights[last.ret.start] > AvailableHeight
    /\ \E i \in 1..Len(WindowSteps) : WindowSteps[i].start < last.ret.start

-----------------------------------------------------------------------------
(* Symbols wider than max_line_width.                                      *)

\* The logical lines without their symbols wider than max_line_width.
FittingInput ==
    [k \in 1..Len(input) |->
        [symbols |-> Fitting(input[k].symbols, composer.max_line_width),
         alignment |-> input[k].alignment]]

\* The lines the word-wrap composer makes of the logical lines, in order.
RECURSIVE WrappedLines(_, _, _)
WrappedLines(lines, max_line_width, trim) ==
    IF lines = <<>> THEN <<>>
    ELSE wrap_line(Head(lines).symbols, max_line_width, trim)
             \o WrappedLines(Tail(lines), max_line_width, trim)

\* The lines the truncating composer makes of the logical lines, in order.
TruncatedLines(lines, max_line_width, horizontal_offset) ==
    [k \in 1..Len(lines) |->
        truncate_symbols(truncate_start(horizontal_offset), lines[k].symbols,
                         max_line_width, lines[k].alignment).current_line]

\* The lines the composer at hand makes of the logical lines.
ComposedLines(lines) ==
    IF composer.kind = "WordWrapper"
    THEN WrappedLines(lines, composer.max_line_width, composer.trim)
    ELSE TruncatedLines(lines, composer.max_line_width,
                        composer.horizontal_offset)

\* The logical line has a symbol wider than max_line_width at place i, and
\* a symbol that is not after it.
TooWideBefore(line, i) ==
    /\ i < Len(line)
    /\ width(line[i]) > composer.max_line_width
    /\ 0 < width(line[i + 1])
    /\ width(line[i + 1]) <= composer.max_line_width

(* C32: in both composers a symbol wider than max_line_width is never in a *)
(* line returned and never ends the work on its logical line: the lines    *)
(* returned are those returned for the same logical lines with all such    *)
(* symbols taken out beforehand.                                           *)
C32_TooWideSkipped ==
    composer.max_line_width > 0 =>
        LET without == ComposedLines(FittingInput)
        IN /\ Len(emitted) <= Len(without)
           /\ EmittedLines = SubSeq(without, 1, Len(emitted))
           /\ Exhausted => Len(emitted) = Len(without)
           /\ \A k \in 1..Len(emitted) :
                 \A symbol \in SymbolsOf(emitted[k].line) :
                     width(symbol) <= composer.max_line_width

\* The word-wrap composer has returned all lines of a logical line that
\* has a symbol wider than max_line_width and a symbol after it, which is
\* in the last line returned.
C32_Witness ==
    /\ composer.kind = "WordWrapper"
    /\ composer.max_line_width > 0
    /\ Len(input) = 1
    /\ Exhausted
    /\ Len(emitted) >= 1
    /\ \E i \in 1..Len(input[1].symbols) :
          /\ TooWideBefore(input[1].symbols, i)
          /\ LET line == emitted[Len(emitted)].line
             IN line # <<>> /\ line[Len(line)] = input[1].symbols[i + 1]

\* The truncating composer has returned the line of a logical line that
\* has a symbol wider than max_line_width and a symbol after it, which is
\* in the line returned.
C32_TruncatorReached ==
    /\ composer.kind = "LineTruncator"
    /\ composer.max_line_width > 0
    /\ composer.horizontal_offset = 0
    /\ Len(input) = 1
    /\ Exhausted
    /\ Len(emitted) = 1
    /\ \E i \in 1..Len(input[1].symbols) :
          /\ TooWideBefore(input[1].symbols, i)
          /\ LET line == emitted[1].line
             IN line # <<>> /\ line[Len(line)] = input[1].symbols[i + 1]

-----------------------------------------------------------------------------
(* The horizontal offset of the truncating composer.                       *)

\* The line without the empty symbols put in place of symbols scrolled out
\* of view.
RECURSIVE Shown(_)
Shown(line) ==
    IF line = <<>> THEN <<>>
    ELSE IF Head(line) = "" THEN Shown(Tail(line))
    ELSE <<Head(line)>> \o Shown(Tail(line))

\* What of the line is at column h and after it: the symbols that begin
\* before column h are left out.
RECURSIVE AfterColumn(_, _)
AfterColumn(line, h) ==
    IF line = <<>> \/ h <= 0 THEN line
    ELSE AfterColumn(Tail(line), h - width(Head(line)))

\* The line the truncating composer makes of the symbols without an offset.
TruncatedPlainly(symbols, alignment) ==
    truncate_symbols(truncate_start(0), symbols, composer.max_line_width,
                     alignment).current_line

(* C33: with a horizontal offset h > 0 the truncating composer consumes    *)
(* the first h columns of a left-aligned logical line and does not return  *)
(* them, so that what it returns starts at column h of the logical line,   *)
(* also when a symbol wider than one column lies across column h; for a    *)
(* centred or right-aligned logical line the offset is ignored and the     *)
(* line returned is the one returned with offset 0.                        *)
C33_TruncateOffset ==
    /\ composer.kind = "LineTruncator"
    /\ composer.max_line_width > 0
    /\ composer.horizontal_offset > 0
    /\ result.some
    => LET source == ResultSource
           fitting == Fitting(source.symbols, composer.max_line_width)
       IN IF source.alignment = "Left"
          THEN Shown(result.line)
                  = TruncatedPlainly(
                        AfterColumn(fitting, composer.horizontal_offset),
                        source.alignment)
          ELSE result.line = TruncatedPlainly(source.symbols, source.alignment)

-----------------------------------------------------------------------------
(* Whitespace and words in the lines of the word-wrap composer.            *)

(* C34: with trim on, no line the word-wrap composer returns begins with a *)
(* whitespace symbol (a no-break space is no whitespace), be it the first  *)
(* line of a logical line or a line after a wrap.                          *)
C34_TrimmedLineStart ==
    /\ composer.kind = "WordWrapper"
    /\ composer.trim
    /\ composer.max_line_width > 0
    => \A k \in 1..Len(emitted) :
           emitted[k].line # <<>> =>
               ~symbol_whitespace_of(emitted[k].line[1])

\* With trim on, a logical line that begins with whitespace and has
\* whitespace between two words has been returned as two lines or more,
\* each beginning with a symbol of a word, the last with the symbol that
\* follows that whitespace.
C34_Witness ==
    /\ composer.kind = "WordWrapper"
    /\ composer.trim
    /\ composer.max_line_width > 0
    /\ Len(input) = 1
    /\ Len(input[1].symbols) >= 3
    /\ symbol_whitespace_of(input[1].symbols[1])
    /\ Exhausted
    /\ Len(emitted) >= 2
    /\ \A k \in 1..Len(emitted) :
          emitted[k].line # <<>> /\ ~symbol_whitespace_of(emitted[k].line[1])
    /\ \E i \in 2..(Len(input[1].symbols) - 1) :
          /\ ~symbol_whitespace_of(input[1].symbols[i - 1])
          /\ symbol_whitespace_of(input[1].symbols[i])
          /\ width(input[1].symbols[i]) > 0
          /\ ~symbol_whitespace_of(input[1].symbols[i + 1])
          /\ input[1].symbols[i + 1] = emitted[Len(emitted)].line[1]

\* The lines one after the other, as one line.
RECURSIVE Concatenated(_)
Concatenated(lines) ==
    IF lines = <<>> THEN <<>> ELSE Head(lines) \o Concatenated(Tail(lines))

\* The symbols of the line that are no whitespace, in order.
RECURSIVE NonWhitespace(_)
NonWhitespace(line) ==
    IF line = <<>> THEN <<>>
    ELSE IF symbol_whitespace_of(Head(line)) THEN NonWhitespace(Tail(line))
    ELSE <<Head(line)>> \o NonWhitespace(Tail(line))

\* The words of the logical line the word-wrap composer has to return: its
\* symbols that are no whitespace and not wider than max_line_width.
WordsOf(symbols) == NonWhitespace(Fitting(symbols, composer.max_line_width))

\* The lines returned for the k-th logical line, once all are returned:
\* the lines returned are those of the logical lines, in order.
LinesReturnedFor(k) ==
    LET before == Len(WrappedLines(SubSeq(input, 1, k - 1),
                                   composer.max_line_width, composer.trim))
        upto == Len(WrappedLines(SubSeq(input, 1, k),
                                 composer.max_line_width, composer.trim))
    IN SubSeq(EmittedLines, before + 1, upto)

(* C35: word wrapping drops, doubles and reorders nothing that is no       *)
(* whitespace: for each logical line, the lines returned for it, put one   *)
(* after the other and without their whitespace symbols, are the symbols   *)
(* of the logical line that are no whitespace and not wider than           *)
(* max_line_width, in the order of the input and each once, with trim on   *)
(* or off.                                                                 *)
C35_WordsKept ==
    /\ composer.kind = "WordWrapper"
    /\ composer.max_line_width > 0
    /\ Exhausted
    => /\ Len(emitted)
             = Len(WrappedLines(input, composer.max_line_width, composer.trim))
       /\ \A k \in 1..Len(input) :
             NonWhitespace(Concatenated(LinesReturnedFor(k)))
                 = WordsOf(input[k].symbols)

\* A logical line with two symbols of words or more, a whitespace symbol
\* and a symbol wider than max_line_width has been returned as two lines
\* or more.
C35_Witness ==
    /\ composer.kind = "WordWrapper"
    /\ composer.max_line_width > 0
    /\ Exhausted
    /\ Len(input) = 1
    /\ Len(emitted) >= 2
    /\ Len(WordsOf(input[1].symbols)) >= 2
    /\ Len(Fitting(input[1].symbols, composer.max_line_width))
          < Len(input[1].symbols)
    /\ \E symbol \in SymbolsOf(input[1].symbols) :
          symbol_whitespace_of(symbol)
             /\ width(symbol) <= composer.max_line_width

(* C36: the word-wrap composer returns an empty line only for a logical    *)
(* line without a symbol that is no whitespace and not wider than          *)
(* max_line_width; for a logical line that has such a symbol no line       *)
(* returned is empty (with trim on and max_line_width 3, two spaces before *)
(* a word of three columns give just the word).                            *)
C36_NoEmptyLineWithWords ==
    /\ composer.kind = "WordWrapper"
    /\ composer.max_line_width > 0
    /\ Exhausted
    /\ Len(emitted)
          = Len(WrappedLines(input, composer.max_line_width, composer.trim))
    => \A k \in 1..Len(input) :
           WordsOf(input[k].symbols) # <<>> =>
               \A i \in 1..Len(LinesReturnedFor(k)) :
                   LinesReturnedFor(k)[i] # <<>>

-----------------------------------------------------------------------------
(* No-break spaces.                                                        *)

\* The symbol belongs to a word: it is no whitespace, or a no-break space.
WordSymbol(symbol) == symbol = NBSP \/ ~is_whitespace(symbol)

\* The symbols of the line that belong to words, in order.
RECURSIVE WordSymbols(_)
WordSymbols(line) ==
    IF line = <<>> THEN <<>>
    ELSE IF WordSymbol(Head(line))
    THEN <<Head(line)>> \o WordSymbols(Tail(line))
    ELSE WordSymbols(Tail(line))

\* For every symbol of a word in the lines, in order, the number of the
\* line it is in, counted from i.
RECURSIVE WordPlaces(_, _)
WordPlaces(lines, i) ==
    IF lines = <<>> THEN <<>>
    ELSE [j \in 1..Len(WordSymbols(Head(lines))) |-> i]
             \o WordPlaces(Tail(lines), i + 1)

\* The number of no-break spaces in the line.
NoBreakSpaces(line) == Cardinality({i \in 1..Len(line) : line[i] = NBSP})

\* The symbols p to q of the line are a whole run of symbols of words.
IsWordRun(line, p, q) ==
    /\ 1 <= p /\ p <= q /\ q <= Len(line)
    /\ \A i \in p..q : WordSymbol(line[i])
    /\ p > 1 => ~WordSymbol(line[p - 1])
    /\ q < Len(line) => ~WordSymbol(line[q + 1])

\* The width of the whitespace directly before the symbol at place p.
RECURSIVE WhitespaceBefore(_, _)
WhitespaceBefore(line, p) ==
    IF p <= 1 THEN 0
    ELSE IF WordSymbol(line[p - 1]) THEN 0
    ELSE width(line[p - 1]) + WhitespaceBefore(line, p - 1)

\* In the lines returned for the k-th logical line, no line ends between a
\* no-break space and a symbol of a word next to it, for the runs of
\* symbols of words p to q that Covered(fitting, p, q) holds of.
NoBreakSpacesHeld(k, Covered(_, _, _)) ==
    LET fitting == Fitting(input[k].symbols, composer.max_line_width)
        places == WordPlaces(LinesReturnedFor(k), 1)
        ordinal(i) == Len(WordSymbols(SubSeq(fitting, 1, i)))
    IN /\ Len(places) = Len(WordSymbols(fitting))
       /\ \A p, q \in 1..Len(fitting) :
             /\ IsWordRun(fitting, p, q)
             /\ line_width_of(SubSeq(fitting, p, q)) <= composer.max_line_width
             /\ Covered(fitting, p, q)
             => \A i \in p..(q - 1) :
                    NBSP \in {fitting[i], fitting[i + 1]} =>
                        places[ordinal(i)] = places[ordinal(i + 1)]

\* No no-break space of the k-th logical line is missing in the lines
\* returned for it.
NoBreakSpacesKept(k) ==
    NoBreakSpaces(Concatenated(LinesReturnedFor(k)))
        = NoBreakSpaces(Fitting(input[k].symbols, composer.max_line_width))

\* All lines of the word-wrap composer have been returned.
AllWrapped ==
    /\ composer.kind = "WordWrapper"
    /\ composer.max_line_width > 0
    /\ Exhausted
    /\ Len(emitted)
          = Len(WrappedLines(input, composer.max_line_width, composer.trim))

\* Every run is covered.
AnyRun(fitting, p, q) == TRUE

\* trim is on, or the run and the whitespace directly before it are
\* together at most max_line_width wide.
RunFitsWithWhitespace(fitting, p, q) ==
    \/ composer.trim
    \/ WhitespaceBefore(fitting, p) + line_width_of(SubSeq(fitting, p, q))
          <= composer.max_line_width

(* C37 as claimed: a no-break space is part of a word and never            *)
(* whitespace: the word-wrap composer never ends a line between a no-break *)
(* space and a symbol of a word next to it when the whole run of symbols   *)
(* of words is at most max_line_width wide, and no no-break space is       *)
(* removed by trimming or with the whitespace consumed after a wrap.       *)
C37_Claimed ==
    AllWrapped =>
        \A k \in 1..Len(input) :
            NoBreakSpacesHeld(k, AnyRun) /\ NoBreakSpacesKept(k)

(* C37, amended: a no-break space is part of a word and never whitespace:  *)
(* the word-wrap composer never ends a line between a no-break space and a *)
(* symbol of a word next to it when the whole run of symbols of words is   *)
(* at most max_line_width wide and either trim is on or the run together   *)
(* with the whitespace directly before it is at most max_line_width wide;  *)
(* and no no-break space is removed by trimming or with the whitespace     *)
(* consumed after a wrap, with trim on or off.                             *)
C37_NoBreakSpaceInWord ==
    AllWrapped =>
        \A k \in 1..Len(input) :
            NoBreakSpacesHeld(k, RunFitsWithWhitespace) /\ NoBreakSpacesKept(k)

\* With trim on, a logical line has been returned as two lines or more, the
\* first beginning with a no-break space and the last holding a no-break
\* space and, next to it, another symbol of a word.
C37_Witness ==
    /\ AllWrapped
    /\ composer.trim
    /\ Len(input) = 1
    /\ Len(emitted) >= 2
    /\ emitted[1].line # <<>>
    /\ emitted[1].line[1] = NBSP
    /\ LET line == emitted[Len(emitted)].line
       IN \E i \in 1..(Len(line) - 1) :
              line[i] = NBSP /\ WordSymbol(line[i + 1]) /\ line[i + 1] # NBSP

-----------------------------------------------------------------------------
(* Shared tree items.                                                      *)

\* The lists of entries kept from the two latest flatten calls.
Captures == {flat, last.ret}

\* The item behind the handle of an entry, as the holder of the entry sees
\* it: entry.item().borrow().
Observed(entry) == nodes[entry.item]

\* An item has been changed since the latest flatten call returned.
Changed == last.op \in {"add_child", "set_text"}

(* C38: the entries flatten returns hold handles to the tree's own items   *)
(* and no copies: the item behind an entry is the item the tree has at the *)
(* entry's identifier, so that a change of an item's text or child list    *)
(* made after flatten returned is seen through an entry kept from before,  *)
(* and entries of two flatten calls for the same item see the same item.   *)
C38_SharedHandles ==
    /\ \A entries \in Captures :
          \A i \in 1..Len(entries) :
              LET node == ItemAt(nodes, items, entries[i].identifier)
              IN /\ node # None
                 /\ entries[i].item = node
                 /\ Observed(entries[i]) = nodes[node]
                 /\ Changed /\ node = last.arg[1] =>
                       /\ Observed(entries[i]) # last.pre
                       /\ last.op = "set_text" =>
                             Observed(entries[i]).text = ChangedText
                       /\ last.op = "add_child" =>
                             Observed(entries[i]).children
                                 = Append(last.pre.children, Len(nodes))
    /\ \A i \in 1..Len(flat) :
          \A j \in 1..Len(last.ret) :
              flat[i].identifier = last.ret[j].identifier =>
                  /\ flat[i].item = last.ret[j].item
                  /\ Observed(flat[i]) = Observed(last.ret[j])

\* The text of an item was changed after two flatten calls with different
\* open sets had returned, both with an entry for the item, and the new
\* text is seen through both entries.
C38_Witness ==
    /\ last.op = "set_text"
    /\ Len(flat) # Len(last.ret)
    /\ \E i \in 1..Len(flat) :
          \E j \in 1..Len(last.ret) :
              /\ flat[i].item = last.arg[1]
              /\ last.ret[j].item = last.arg[1]
              /\ Observed(flat[i]).text = ChangedText
              /\ Observed(last.ret[j]).text = ChangedText
              /\ last.pre.text # ChangedText

\* A child was added to an item after a flatten call had returned with an
\* entry for the item, and the new child is seen through the entry.
C38_ChildSeen ==
    /\ last.op = "add_child"
    /\ \E i \in 1..Len(flat) :
          /\ flat[i].item = last.arg[1]
          /\ Len(Observed(flat[i]).children) = Len(last.pre.children) + 1

====
